---- MODULE Spec2Model ----
(***************************************************************************)
(* Model of the migration core of AppwriteUtils:                           *)
(*   - DataLoader (packages/appwrite-utils-cli/src/migrations/dataLoader)  *)
(*     the staging store, the id tables, the identity merge, the resolver  *)
(*   - ImportController (src/migrations/importController): the update      *)
(*     handler and the drain of the post-import action queue               *)
(*   - mergeObjects, the deep merge used by both passes                    *)
(***************************************************************************)
EXTENDS Integers, Sequences, FiniteSets, TLC

VARIABLES
  mSource,    \* mergeObjects: the `source` argument
  mUpdate,    \* mergeObjects: the `update` argument
  mResult,    \* mergeObjects: the returned object, NoResult before the call
  files,      \* import definition -> the records of its data file, each with
              \*   the verdict validateItem / AuthUserCreateSchema gives it
  storeUsers, \* the identities UsersController.getAllUsers returns
  pc,         \* where DataLoader.start stands
  ci,         \* index of the collection start() is processing
  di,         \* index of the import definition within its pass
  cursor,     \* records of the current data file already processed
  importMap,  \* collection key -> [data |-> staged records]
  oldIdToNewIdPerCollectionMap,  \* collection key -> (old id -> new id)
  collectionImportOperations,    \* collection keys that have an operation id
  mergedUserMap,      \* new user id -> old ids merged into it
  emailToUserIdMap,   \* email -> user id
  phoneToUserIdMap,   \* phone -> user id
  currentUserData,    \* the "users" stage object captured at line 773
  issued,     \* the ids ID.unique() has returned, in order
  dbCollections, \* names of the collections checkForCollection finds
  ctl,        \* ImportController: its pass, the records in flight, the document
              \*   cache and the documents of the store
  queue,      \* the after-import operation of the collection and its batches
  drain,      \* executePostImportActions: its position and what it has executed
  run,        \* ImportController.run: its position, the database, and the
              \*   collections importCollections has started
  keyCall,    \* getCollectionKey: the names it is called with and the keys it
              \*   has returned, NoResult while it is not called on its own
  previous    \* the buckets an earlier DataLoader built from the same identity
              \*   file, NoResult while there was none

(***************************************************************************)
(* JavaScript values.  Every value carries its type, so that `${v}`, ===,  *)
(* truthiness and _.isEmpty can be computed as the runtime computes them.  *)
(* An object is a function from its own keys to values.                    *)
(***************************************************************************)
Undef == [t |-> "undef"]
Null == [t |-> "null"]
Str(s) == [t |-> "str", v |-> s]
Num(s) == [t |-> "num", v |-> s]
Arr(seq) == [t |-> "arr", a |-> seq]
Obj(f) == [t |-> "obj", o |-> f]
Thrown == [t |-> "throw"]
NoResult == [t |-> "none"]
False == [t |-> "bool", b |-> FALSE]
Ref(c, i) == [t |-> "ref", c |-> c, i |-> i]   \* the finalData object of a staged record
EmptyObj == [k \in {} |-> Undef]

\* obj[key]: undefined when the object has no such own key
Get(f, k) == IF k \in DOMAIN f THEN f[k] ELSE Undef

\* obj[key] = value on a copy
Put(f, k, val) == [x \in DOMAIN f \cup {k} |-> IF x = k THEN val ELSE f[x]]

\* { ...a, ...b }
Spread2(a, b) == [x \in DOMAIN a \cup DOMAIN b |-> IF x \in DOMAIN b THEN b[x] ELSE a[x]]

\* delete obj[key]
Del(f, ks) == [x \in DOMAIN f \ ks |-> f[x]]

IsNullish(val) == val.t \in {"undef", "null"}

\* the index keys "0", "1", ... of an array or string
IdxKey(i) == ToString(i - 1)

\* the characters of a string; the data strings of this model have at most
\* one character, so a non-empty string is its own only character
Chars(s) == IF s = "" THEN <<>> ELSE <<Str(s)>>

IdxObj(seq) == [k \in {IdxKey(i) : i \in 1..Len(seq)} |->
                  seq[CHOOSE i \in 1..Len(seq) : IdxKey(i) = k]]

\* { ...value } as mergeObjects line 103 evaluates it for any value: own
\* enumerable keys of an object, the indices of an array or of a string,
\* nothing for a number, null or undefined
SpreadValue(val) ==
  CASE val.t = "obj" -> val.o
    [] val.t = "arr" -> IdxObj(val.a)
    [] val.t = "str" -> IdxObj(Chars(val.v))
    [] OTHER -> EmptyObj

\* value[key], dataLoader.ts line 106: an own key of an object; throws on
\* undefined and null; the length and the indices of an array or a string;
\* undefined on the other non-objects
Index(val, k) ==
  CASE val.t = "obj" -> Get(val.o, k)
    [] val.t \in {"undef", "null"} -> Thrown
    [] val.t = "arr" /\ k = "length" -> Num(ToString(Len(val.a)))
    [] val.t = "str" /\ k = "length" -> Num(ToString(Len(Chars(val.v))))
    [] OTHER -> Get(SpreadValue(val), k)

\* [...new Set(seq)]: first occurrences, in order
RECURSIVE Dedupe(_)
Dedupe(seq) ==
  IF seq = <<>> THEN <<>>
  ELSE LET rest == Dedupe(SubSeq(seq, 1, Len(seq) - 1))
           last == seq[Len(seq)]
       IN IF \E i \in 1..Len(rest) : rest[i] = last THEN rest ELSE Append(rest, last)

\* a plausible slip: a nullish update value overwrites like any other scalar
RECURSIVE mergeObjectsNullOverwrites(_, _)
mergeObjectsNullOverwrites(source, update) ==
  LET base == SpreadValue(source)
      one(key) ==
        LET sourceValue == Index(source, key)
            updateValue == update.o[key]
        IN CASE sourceValue = Thrown -> Thrown
             [] updateValue.t = "arr" ->
                  Arr(Dedupe((IF sourceValue.t = "arr" THEN sourceValue.a ELSE <<>>)
                             \o updateValue.a))
             [] updateValue.t = "obj" -> mergeObjectsNullOverwrites(sourceValue, updateValue)
             [] OTHER -> updateValue
      keys == DOMAIN update.o
  IN IF \E k \in keys : one(k) = Thrown THEN Thrown
     ELSE Obj([k \in DOMAIN base \cup keys |-> IF k \in keys THEN one(k) ELSE base[k]])

\* mergeObjects(source, update), dataLoader.ts 101-133.  `update` is an
\* object; `source` is an object at the top and any value in the recursion.
\* Keep marks a key the loop leaves as the spread of source made it.
RECURSIVE mergeObjects(_, _)
mergeObjects(source, update) ==
  LET base == SpreadValue(source)
      Keep == [t |-> "keep"]
      one(key) ==
        LET sourceValue == Index(source, key)
            updateValue == update.o[key]
        IN CASE sourceValue = Thrown -> Thrown
             [] updateValue.t = "arr" ->
                  Arr(Dedupe((IF sourceValue.t = "arr" THEN sourceValue.a ELSE <<>>)
                             \o updateValue.a))
             [] updateValue.t = "obj" -> mergeObjects(sourceValue, updateValue)
             [] ~IsNullish(updateValue) -> updateValue
             [] sourceValue.t = "undef" -> updateValue
             [] OTHER -> Keep
      keys == DOMAIN update.o
      set == {k \in keys : one(k) # Keep}
  IN IF \E k \in keys : one(k) = Thrown THEN Thrown
     ELSE Obj([k \in DOMAIN base \cup set |-> IF k \in set THEN one(k) ELSE base[k]])

(***************************************************************************)
(* Conversions of values, as the DataLoader uses them.                     *)
(***************************************************************************)
\* Array.prototype.join(","): null and undefined elements give ""
RECURSIVE JoinStr(_)
\* `${value}`
TStr(val) ==
  CASE val.t \in {"str", "num"} -> val.v
    [] val.t = "undef" -> "undefined"
    [] val.t = "null" -> "null"
    [] val.t = "bool" -> IF val.b THEN "true" ELSE "false"
    [] val.t = "arr" -> JoinStr(val.a)
    [] OTHER -> "[object Object]"
JoinStr(seq) ==
  IF seq = <<>> THEN ""
  ELSE LET e == seq[Len(seq)]
           last == IF IsNullish(e) THEN "" ELSE TStr(e)
       IN IF Len(seq) = 1 THEN last
          ELSE JoinStr(SubSeq(seq, 1, Len(seq) - 1)) \o "," \o last

\* !!value
Truthy(val) ==
  CASE val.t = "str" -> val.v # ""
    [] val.t = "num" -> val.v # "0"
    [] val.t \in {"undef", "null"} -> FALSE
    [] val.t = "bool" -> val.b
    [] OTHER -> TRUE

\* _.isEmpty(value): only collections and strings can be non-empty
IsEmpty(val) ==
  CASE val.t = "str" -> val.v = ""
    [] val.t = "arr" -> val.a = <<>>
    [] val.t = "obj" -> DOMAIN val.o = {}
    [] val.t = "ref" -> FALSE
    [] OTHER -> TRUE

(***************************************************************************)
(* Collection names are sequences of characters.                           *)
(***************************************************************************)
UpperCase == <<"A","B","C","D","E","F","G","H","I","J","K","L","M",
               "N","O","P","Q","R","S","T","U","V","W","X","Y","Z">>
LowerCase == <<"a","b","c","d","e","f","g","h","i","j","k","l","m",
               "n","o","p","q","r","s","t","u","v","w","x","y","z">>

toLowerCase(name) ==
  [i \in 1..Len(name) |->
     IF \E j \in 1..26 : UpperCase[j] = name[i]
     THEN LowerCase[CHOOSE j \in 1..26 : UpperCase[j] = name[i]]
     ELSE name[i]]

\* String.prototype.replace(pattern, "") with a string pattern: the first
\* occurrence only
replaceFirst(name, ch) ==
  IF \E i \in 1..Len(name) : name[i] = ch
  THEN LET i == CHOOSE j \in 1..Len(name) :
                  name[j] = ch /\ \A k \in 1..(j - 1) : name[k] # ch
       IN SubSeq(name, 1, i - 1) \o SubSeq(name, i + 1, Len(name))
  ELSE name

getCollectionKey(name) == replaceFirst(toLowerCase(name), " ")

(***************************************************************************)
(* The configuration: an identity collection and a collection that refers  *)
(* to it.  Each import definition reads the data file of its name.         *)
(***************************************************************************)
usersCollectionName == <<"M","e","m","b","e","r","s">>
PostsName == <<"P","o","s","t","s">>
UsersLiteral == <<"u","s","e","r","s">>

MembersCreate ==
  [file |-> "membersCreate", type |-> "create", primaryKeyField |-> "id",
   attributeMappings |-> <<[oldKey |-> "id", targetKey |-> "userId", fileData |-> FALSE],
                           [oldKey |-> "email", targetKey |-> "email", fileData |-> FALSE],
                           [oldKey |-> "phone", targetKey |-> "phone", fileData |-> FALSE]>>,
   idMappings |-> <<>>]
MembersUpdate ==
  [file |-> "membersUpdate", type |-> "update", primaryKeyField |-> "id",
   attributeMappings |-> <<[oldKey |-> "bio", targetKey |-> "bio", fileData |-> FALSE]>>,
   idMappings |-> <<>>]
PostsCreate ==
  [file |-> "postsCreate", type |-> "create", primaryKeyField |-> "id",
   attributeMappings |-> <<[oldKey |-> "id", targetKey |-> "legacyId", fileData |-> FALSE],
                           [oldKey |-> "writer", targetKey |-> "writer", fileData |-> FALSE]>>,
   idMappings |-> <<[sourceField |-> "author", targetCollection |-> usersCollectionName,
                     targetField |-> "id", fieldToSet |-> "writer"]>>]
PostsUpdate ==
  [file |-> "postsUpdate", type |-> "update", primaryKeyField |-> "id",
   attributeMappings |-> <<[oldKey |-> "title", targetKey |-> "title", fileData |-> FALSE],
                           [oldKey |-> "cover", targetKey |-> "cover", fileData |-> TRUE]>>,
   idMappings |-> <<>>,
   updateMapping |-> [originalIdField |-> "id", targetField |-> "legacyId"]]

\* config.collections; the attribute `writer` of Posts is declared an array,
\* its update definition attaches a file to `cover` and finds its document
\* by an update mapping
Collections ==
  <<[name |-> usersCollectionName, id |-> "cMembers",
     importDefs |-> <<MembersCreate, MembersUpdate>>, arrayAttributes |-> {}],
    [name |-> PostsName, id |-> "cPosts",
     importDefs |-> <<PostsCreate, PostsUpdate>>, arrayAttributes |-> {"writer"}]>>

DefFiles == {"membersCreate", "membersUpdate", "postsCreate", "postsUpdate"}

createDefs(col) == SelectSeq(col.importDefs, LAMBDA d : d.type = "create")
updateDefs(col) == SelectSeq(col.importDefs, LAMBDA d : d.type = "update")

isUsersCollection(col) ==
  getCollectionKey(usersCollectionName) = getCollectionKey(col.name)

(***************************************************************************)
(* Maps that are iterated keep their insertion order: a sequence of        *)
(* entries [k, v] with distinct keys.                                      *)
(***************************************************************************)
MapHas(m, k) == \E i \in 1..Len(m) : m[i].k = k
MapGet(m, k) == m[CHOOSE i \in 1..Len(m) : m[i].k = k].v
MapSet(m, k, val) ==
  IF MapHas(m, k) THEN [i \in 1..Len(m) |-> IF m[i].k = k THEN [k |-> k, v |-> val] ELSE m[i]]
  ELSE Append(m, [k |-> k, v |-> val])
MapKeys(m) == {m[i].k : i \in 1..Len(m)}
MapValues(m) == {m[i].v : i \in 1..Len(m)}

UsersKey == getCollectionKey(UsersLiteral)
Table(key) == IF key \in DOMAIN oldIdToNewIdPerCollectionMap
              THEN oldIdToNewIdPerCollectionMap[key] ELSE <<>>
Stage(key) == importMap[key].data

\* checkMapValuesForId, lines 152-160: the key of the first entry whose value
\* is newId, else false
checkMapValuesForId(newId, collectionName) ==
  LET oldIdMap == Table(collectionName)
      hits == {i \in 1..Len(oldIdMap) : oldIdMap[i].v = newId}
  IN IF hits = {} THEN False
     ELSE Str(oldIdMap[CHOOSE i \in hits : \A j \in hits : i <= j].k)

\* ID.unique(): an id never returned before, or (a collision) one that was
FreshId == "n" \o ToString(Cardinality(issued) + 1)
IdUnique == issued \cup {FreshId}

\* getTrueUniqueId, lines 163-169: the ids the loop can end with
getTrueUniqueId(collectionName) ==
  {newId \in IdUnique : ~Truthy(checkMapValuesForId(newId, collectionName))}

\* createContext, lines 172-187
createContext(col, item, docId) ==
  Spread2(item, [dbId |-> Str("db"), dbName |-> Str("db"), collId |-> Str(col.id),
                 collName |-> Str("coll"), docId |-> Str(docId),
                 createdDoc |-> Obj(EmptyObj)])

\* a plausible slip: the check `mapping.oldKey in obj` is left out, so a
\* mapping whose old key the object lacks sets its target key to undefined
RECURSIVE convertWithoutCheck(_, _)
convertWithoutCheck(obj, attributeMappings) ==
  IF attributeMappings = <<>> THEN EmptyObj
  ELSE LET n == Len(attributeMappings)
           mapping == attributeMappings[n]
           result == convertWithoutCheck(obj, SubSeq(attributeMappings, 1, n - 1))
       IN Put(result, mapping.targetKey, Get(obj, mapping.oldKey))

\* convertObjectByAttributeMappings, converters.ts 221-238
RECURSIVE convertObjectByAttributeMappings(_, _)
convertObjectByAttributeMappings(obj, attributeMappings) ==
  IF attributeMappings = <<>> THEN EmptyObj
  ELSE LET n == Len(attributeMappings)
           mapping == attributeMappings[n]
           result == convertObjectByAttributeMappings(obj, SubSeq(attributeMappings, 1, n - 1))
       IN IF mapping.oldKey \in DOMAIN obj
          THEN Put(result, mapping.targetKey, obj[mapping.oldKey])
          ELSE result

\* transformData, lines 197-208; the configured mappings name no converter,
\* so runConverterFunctions returns the converted item as it is
transformData(item, attributeMappings) ==
  convertObjectByAttributeMappings(item, attributeMappings)

\* AuthUserCreateSchema.safeParse(...).data: the identity fields of the item
AuthUserData(transformedItem) ==
  [k \in DOMAIN transformedItem \cap {"userId", "email", "phone", "name", "labels", "prefs"}
     |-> transformedItem[k]]

\* a plausible slip: the resolver runs inside the loop over the collections,
\* after the create definitions of each
EnterResolvesEarly(c, pass, d) ==
  IF c <= Len(Collections) /\ pass = "create" /\ d <= Len(createDefs(Collections[c]))
  THEN [pc |-> "createBegin", ci |-> c, di |-> d]
  ELSE [pc |-> "merged", ci |-> c, di |-> 0]

\* where start() goes next: the first import definition at or after
\* definition d of the given pass of collection c, else the resolver
RECURSIVE Enter(_, _, _)
Enter(c, pass, d) ==
  IF c > Len(Collections) THEN [pc |-> "merged", ci |-> c, di |-> 0]
  ELSE IF pass = "create"
       THEN IF d <= Len(createDefs(Collections[c]))
            THEN [pc |-> "createBegin", ci |-> c, di |-> d]
            ELSE Enter(c, "update", 1)
       ELSE IF d <= Len(updateDefs(Collections[c]))
            THEN [pc |-> "updateBegin", ci |-> c, di |-> d]
            ELSE Enter(c + 1, "create", 1)

GoTo(pos) == pc' = pos.pc /\ ci' = pos.ci /\ di' = pos.di /\ cursor' = 0

col == Collections[ci]
colKey == getCollectionKey(col.name)
createDef == createDefs(col)[di]
updateDef == updateDefs(col)[di]

inputVars == <<files, storeUsers, dbCollections, previous>>
mergeVars == <<mSource, mUpdate, mResult, keyCall>>
userVars == <<mergedUserMap, emailToUserIdMap, phoneToUserIdMap>>
posVars == <<pc, ci, di, cursor>>
ctlVars == <<ctl, queue, drain, run>>

\* a plausible slip: no stage for the key "users"
setupMapsWithoutUsers ==
  /\ pc = "setup"
  /\ LET found == {i \in 1..Len(Collections) : Collections[i].name \in dbCollections}
         keys == {getCollectionKey(Collections[i].name) : i \in found}
     IN /\ importMap' = [k \in keys |-> [data |-> <<>>]]
        /\ collectionImportOperations' = keys
  /\ pc' = "getAllUsers"
  /\ UNCHANGED <<ci, di, cursor, oldIdToNewIdPerCollectionMap, userVars, currentUserData,
                 issued, inputVars, mergeVars, ctlVars>>

\* setupMaps, lines 210-260
setupMaps ==
  /\ pc = "setup"
  /\ LET found == {i \in 1..Len(Collections) : Collections[i].name \in dbCollections}
         keys == {getCollectionKey(Collections[i].name) : i \in found}
     IN /\ importMap' = [k \in {UsersKey} \cup keys |-> [data |-> <<>>]]
        /\ collectionImportOperations' = keys
  /\ pc' = "getAllUsers"
  /\ UNCHANGED <<ci, di, cursor, oldIdToNewIdPerCollectionMap, userVars, currentUserData,
                 issued, inputVars, mergeVars, ctlVars>>

\* getAllUsers, lines 262-276: later users overwrite earlier ones
RECURSIVE IndexUsers(_, _, _)
IndexUsers(users, field, m) ==
  IF users = <<>> THEN m
  ELSE LET user == users[1]
       IN IndexUsers(Tail(users), field,
                     IF user[field] # "" THEN Put(m, user[field], user.id) ELSE m)

getAllUsers ==
  /\ pc = "getAllUsers"
  /\ emailToUserIdMap' = IndexUsers(storeUsers, "email", emailToUserIdMap)
  /\ phoneToUserIdMap' = IndexUsers(storeUsers, "phone", phoneToUserIdMap)
  /\ GoTo(Enter(1, "create", 1))
  /\ UNCHANGED <<importMap, oldIdToNewIdPerCollectionMap, collectionImportOperations,
                 mergedUserMap, currentUserData, issued, inputVars, mergeVars, ctlVars>>

\* the table of a collection, created empty on first use (lines 947-953)
WithTable(key) ==
  IF key \in DOMAIN oldIdToNewIdPerCollectionMap THEN oldIdToNewIdPerCollectionMap
  ELSE Put(oldIdToNewIdPerCollectionMap, key, <<>>)

Crash == pc' = "crashed" /\ UNCHANGED <<ci, di, cursor>>

\* prepareCreateData up to its loop, lines 931-956: a collection without an
\* import operation throws out of start()
beginCreateData ==
  /\ pc = "createBegin"
  /\ ~isUsersCollection(col)
  /\ IF colKey \notin collectionImportOperations
     THEN Crash /\ UNCHANGED oldIdToNewIdPerCollectionMap
     ELSE /\ oldIdToNewIdPerCollectionMap' = WithTable(colKey)
          /\ pc' = "create" /\ cursor' = 0 /\ UNCHANGED <<ci, di>>
  /\ UNCHANGED <<importMap, collectionImportOperations, userVars, currentUserData,
                 issued, inputVars, mergeVars, ctlVars>>

\* prepareUserCollectionCreateData up to its loop, lines 746-788: the table
\* is created before the operation is looked up; the "users" stage is read
\* once, here
beginUserCollectionCreateData ==
  /\ pc = "createBegin"
  /\ isUsersCollection(col)
  /\ oldIdToNewIdPerCollectionMap' = WithTable(colKey)
  /\ IF colKey \notin collectionImportOperations
     THEN Crash /\ UNCHANGED currentUserData
     ELSE IF UsersKey \notin DOMAIN importMap \/ colKey \notin DOMAIN importMap
          THEN GoTo(Enter(ci, "create", di + 1)) /\ UNCHANGED currentUserData
          ELSE /\ currentUserData' = importMap[UsersKey]
               /\ pc' = "create" /\ cursor' = 0 /\ UNCHANGED <<ci, di>>
  /\ UNCHANGED <<importMap, collectionImportOperations, userVars,
                 issued, inputVars, mergeVars, ctlVars>>

\* a plausible slip: the later record takes the key over
mapOldIdOverwrites(oldIdMap, oldId, itemIdNew) == MapSet(oldIdMap, oldId, itemIdNew)

\* lines 977-983: the table after the duplicate check; a key it already has
\* keeps its id
mapOldId(oldIdMap, oldId, itemIdNew) ==
  IF MapHas(oldIdMap, oldId) THEN oldIdMap ELSE MapSet(oldIdMap, oldId, itemIdNew)

\* one turn of the loop of prepareCreateData, lines 958-1026
prepareCreateData ==
  /\ pc = "create"
  /\ ~isUsersCollection(col)
  /\ cursor < Len(files[createDef.file])
  /\ \E itemIdNew \in getTrueUniqueId(colKey) :
       LET entry == files[createDef.file][cursor + 1]
           item == entry.raw
           context0 == createContext(col, item, itemIdNew)
           transformedData == transformData(item, createDef.attributeMappings)
           oldId == Get(item, createDef.primaryKeyField)
           duplicate == MapHas(Table(colKey), TStr(oldId))
           context == Spread2(context0, transformedData)
           staged == [rawData |-> item, context |-> context,
                      importDef |-> createDef.file, finalData |-> transformedData]
       IN /\ issued' = issued \cup {itemIdNew}
          /\ oldIdToNewIdPerCollectionMap' =
               Put(oldIdToNewIdPerCollectionMap, colKey,
                   mapOldId(Table(colKey), TStr(oldId), itemIdNew))
          /\ importMap' =
               IF ~duplicate /\ entry.ok /\ colKey \in DOMAIN importMap
               THEN Put(importMap, colKey, [data |-> Append(Stage(colKey), staged)])
               ELSE importMap
  /\ cursor' = cursor + 1
  /\ UNCHANGED <<pc, ci, di, collectionImportOperations, userVars, currentUserData,
                 inputVars, mergeVars, ctlVars>>

\* the end of the data file: on to the next definition, pass or collection
endCreateData ==
  /\ pc = "create"
  /\ cursor = Len(files[createDef.file])
  /\ GoTo(Enter(ci, "create", di + 1))
  /\ UNCHANGED <<importMap, oldIdToNewIdPerCollectionMap, collectionImportOperations,
                 userVars, currentUserData, issued, inputVars, mergeVars, ctlVars>>

\* mergeObjects on two plain objects; Thrown when the merge throws
Merge(source, update) ==
  LET r == mergeObjects(Obj(source), Obj(update)) IN IF r = Thrown THEN Thrown ELSE r.o

\* a plausible slip: the phone is left out of the keys to strip
userKeysWithoutPhone == {"email", "name", "labels", "prefs"}

\* userKeys, line 712
UserKeys == {"email", "phone", "name", "labels", "prefs"}

IsText(val) == val.t = "str" /\ val.v # ""

\* a plausible slip: only the phone index is consulted
existingIdPhoneOnly(email, phone, newId) ==
  IF IsText(phone) /\ phone.v \in DOMAIN phoneToUserIdMap THEN phoneToUserIdMap[phone.v]
  ELSE newId

\* a plausible slip: the id of the email is kept when the phone has one too
existingIdEmailWins(email, phone, newId) ==
  IF IsText(email) /\ email.v \in DOMAIN emailToUserIdMap THEN emailToUserIdMap[email.v]
  ELSE IF IsText(phone) /\ phone.v \in DOMAIN phoneToUserIdMap THEN phoneToUserIdMap[phone.v]
  ELSE newId

\* lines 680-701: the id the phone is registered to, else the id the email
\* is registered to, else the candidate
existingIdOf(email, phone, newId) ==
  IF IsText(phone) /\ phone.v \in DOMAIN phoneToUserIdMap THEN phoneToUserIdMap[phone.v]
  ELSE IF IsText(email) /\ email.v \in DOMAIN emailToUserIdMap THEN emailToUserIdMap[email.v]
  ELSE newId

\* prepareUserData for an item the schema accepts, lines 678-728: what it
\* returns and what it leaves in the indexes, the merge table and the
\* "users" stage
prepareUserData(item, importDef, newId) ==
  LET transformedItem == transformData(item, importDef.attributeMappings)
      data == AuthUserData(transformedItem)
      email == Get(data, "email")
      phone == Get(data, "phone")
      emailHit == IsText(email) /\ email.v \in DOMAIN emailToUserIdMap
      phoneHit == IsText(phone) /\ phone.v \in DOMAIN phoneToUserIdMap
      existingId == existingIdOf(email, phone, newId)
      bucket == IF MapHas(mergedUserMap, existingId)
                THEN MapGet(mergedUserMap, existingId) ELSE <<>>
      userDataToAdd == [rawData |-> item,
                        finalData |-> Put(data, "userId", Str(existingId))]
  IN [transformedItem |-> Del(transformedItem, UserKeys),
      existingId |-> existingId,
      userData |-> userDataToAdd,
      emails |-> IF IsText(email) /\ ~emailHit
                 THEN Put(emailToUserIdMap, email.v, newId) ELSE emailToUserIdMap,
      phones |-> IF IsText(phone) /\ ~phoneHit
                 THEN Put(phoneToUserIdMap, phone.v, newId) ELSE phoneToUserIdMap,
      merged |-> MapSet(mergedUserMap, existingId,
                        Append(bucket, TStr(Get(item, importDef.primaryKeyField)))),
      users |-> Append(IF UsersKey \in DOMAIN importMap THEN Stage(UsersKey) ELSE <<>>,
                       userDataToAdd)]

\* lines 831-841: the staged payloads whose docId or userId is the old id are
\* merged under the item, one after the other
RECURSIVE MergeDuplicates(_, _, _)
MergeDuplicates(data, oldId, transformedItem) ==
  IF data = <<>> \/ transformedItem = Thrown THEN transformedItem
  ELSE LET fd == data[1].finalData
       IN MergeDuplicates(Tail(data), oldId,
            IF Get(fd, "docId") = oldId \/ Get(fd, "userId") = oldId
            THEN Merge(fd, transformedItem) ELSE transformedItem)

HasId(finalData, id) == Get(finalData, "docId") = Str(id) \/ Get(finalData, "userId") = Str(id)

\* one turn of the loop of prepareUserCollectionCreateData, lines 790-914.
\* An item the schema rejects makes prepareUserData return a plain object,
\* which line 792 cannot destructure: the TypeError leaves start().
prepareUserCollectionCreateData ==
  /\ pc = "create"
  /\ isUsersCollection(col)
  /\ cursor < Len(files[createDef.file])
  /\ \E newId \in getTrueUniqueId(UsersKey) :
       LET entry == files[createDef.file][cursor + 1]
           item == entry.raw
           r == prepareUserData(item, createDef, newId)
           existingId == r.existingId
           oldId == Get(item, createDef.primaryKeyField)
           duplicate == MapHas(Table(colKey), TStr(oldId))
           currentData == Stage(colKey)
           transformedItem == IF duplicate
                              THEN MergeDuplicates(currentData, oldId, r.transformedItem)
                              ELSE r.transformedItem
           context == Spread2(Spread2(createContext(col, item, existingId),
                                      r.transformedItem), r.userData.finalData)
           stale == {i \in 1..Len(currentUserData.data) :
                       /\ HasId(currentUserData.data[i].finalData, existingId)
                       /\ currentUserData.data[i] # r.userData}
           hits == {i \in 1..Len(currentData) : HasId(currentData[i].finalData, existingId)}
           merges == {Merge(currentData[i].finalData, transformedItem) : i \in hits}
                     \cup {Merge(currentUserData.data[i].finalData, r.userData.finalData) :
                             i \in stale}
           staged == [rawData |-> item, context |-> context,
                      importDef |-> createDef.file, finalData |-> transformedItem]
           usersStage == IF stale = {} THEN [data |-> r.users] ELSE currentUserData
       IN /\ issued' = issued \cup {newId}
          /\ IF ~entry.ok
             THEN Crash /\ UNCHANGED <<importMap, oldIdToNewIdPerCollectionMap, userVars>>
             ELSE /\ emailToUserIdMap' = r.emails
                  /\ phoneToUserIdMap' = r.phones
                  /\ mergedUserMap' = r.merged
                  /\ IF transformedItem = Thrown \/ Thrown \in merges
                     THEN /\ Crash
                          /\ importMap' = Put(importMap, UsersKey, [data |-> r.users])
                          /\ UNCHANGED oldIdToNewIdPerCollectionMap
                     ELSE /\ oldIdToNewIdPerCollectionMap' =
                               IF duplicate THEN oldIdToNewIdPerCollectionMap
                               ELSE Put(oldIdToNewIdPerCollectionMap, colKey,
                                        MapSet(Table(colKey), TStr(oldId), existingId))
                          /\ importMap' =
                               Put(Put(importMap, UsersKey, usersStage), colKey,
                                   [data |-> IF hits = {} THEN Append(currentData, staged)
                                             ELSE [i \in 1..Len(currentData) |->
                                                     IF i \in hits
                                                     THEN [currentData[i] EXCEPT
                                                             !.finalData = Merge(@, transformedItem),
                                                             !.context = context,
                                                             !.importDef = createDef.file]
                                                     ELSE currentData[i]]])
                          /\ pc' = pc /\ ci' = ci /\ di' = di /\ cursor' = cursor + 1
  /\ UNCHANGED <<collectionImportOperations, currentUserData, inputVars, mergeVars, ctlVars>>

\* start() lines 322-331 and prepareUpdateData up to its loop, lines
\* 1044-1069
beginUpdateData ==
  /\ pc = "updateBegin"
  /\ IF colKey \notin DOMAIN importMap
        \/ (Stage(colKey) = <<>> /\ colKey \notin DOMAIN oldIdToNewIdPerCollectionMap)
     THEN GoTo(Enter(ci, "update", di + 1))
     ELSE IF colKey \notin collectionImportOperations
          THEN Crash
          ELSE pc' = "update" /\ cursor' = 0 /\ UNCHANGED <<ci, di>>
  /\ UNCHANGED <<importMap, oldIdToNewIdPerCollectionMap, collectionImportOperations,
                 userVars, currentUserData, issued, inputVars, mergeVars, ctlVars>>

\* lines 1084-1097: the new id of an old id, "" when there is none
NewIdOf(oldId) ==
  LET key == TStr(oldId)
      buckets == {i \in 1..Len(mergedUserMap) :
                    \E j \in 1..Len(mergedUserMap[i].v) : mergedUserMap[i].v[j] = key}
  IN IF MapHas(Table(colKey), key) THEN MapGet(Table(colKey), key)
     ELSE IF isUsersCollection(col) /\ buckets # {}
          THEN mergedUserMap[CHOOSE i \in buckets : \A j \in buckets : i <= j].k
          ELSE ""

\* lines 1119-1123: the first staged record whose raw primary key is the old
\* id, 0 when there is none
ItemDataToUpdate(oldId) ==
  LET hits == {i \in 1..Len(Stage(colKey)) :
                 Get(Stage(colKey)[i].rawData, updateDef.primaryKeyField) = oldId}
  IN IF hits = {} THEN 0 ELSE CHOOSE i \in hits : \A j \in hits : i <= j

\* a plausible slip: the branch of lines 1174-1182 is taken and the record of
\* the update file is pushed as a record of its own
prepareUpdateDataPushes ==
  /\ pc = "update"
  /\ cursor < Len(files[updateDef.file])
  /\ LET item == files[updateDef.file][cursor + 1].raw
         transformedData == transformData(item, updateDef.attributeMappings)
         pushed == [rawData |-> item, context |-> createContext(col, item, ""),
                    importDef |-> updateDef.file, finalData |-> transformedData]
     IN importMap' = Put(importMap, colKey, [data |-> Append(Stage(colKey), pushed)])
  /\ cursor' = cursor + 1
  /\ UNCHANGED <<pc, ci, di, oldIdToNewIdPerCollectionMap, collectionImportOperations,
                 userVars, currentUserData, issued, inputVars, mergeVars, ctlVars>>

\* one turn of the loop of prepareUpdateData, lines 1070-1187
prepareUpdateData ==
  /\ pc = "update"
  /\ cursor < Len(files[updateDef.file])
  /\ LET entry == files[updateDef.file][cursor + 1]
         item == entry.raw
         transformedData0 == transformData(item, updateDef.attributeMappings)
         oldId == Get(item, updateDef.primaryKeyField)
         newId == IF Truthy(oldId) THEN NewIdOf(oldId) ELSE ""
         i == IF newId = "" THEN 0 ELSE ItemDataToUpdate(oldId)
         skip == i = 0
         toUpdate == Stage(colKey)[i]
         transformedData == Merge(toUpdate.finalData, transformedData0)
         context == Merge(createContext(col, item, newId), transformedData)
         finalData == Merge(toUpdate.finalData, transformedData)
     IN IF skip
        THEN /\ importMap' = importMap
             /\ pc' = pc /\ ci' = ci /\ di' = di /\ cursor' = cursor + 1
        ELSE IF transformedData = Thrown \/ context = Thrown
             THEN Crash /\ importMap' = importMap
             ELSE /\ importMap' =
                       IF entry.ok
                       THEN Put(importMap, colKey,
                                [data |-> [Stage(colKey) EXCEPT
                                             ![i] = [@ EXCEPT !.finalData = finalData,
                                                              !.context = context,
                                                              !.importDef = updateDef.file]]])
                       ELSE importMap
                  /\ pc' = pc /\ ci' = ci /\ di' = di /\ cursor' = cursor + 1
  /\ UNCHANGED <<oldIdToNewIdPerCollectionMap, collectionImportOperations, userVars,
                 currentUserData, issued, inputVars, mergeVars, ctlVars>>

endUpdateData ==
  /\ pc = "update"
  /\ cursor = Len(files[updateDef.file])
  /\ GoTo(Enter(ci, "update", di + 1))
  /\ UNCHANGED <<importMap, oldIdToNewIdPerCollectionMap, collectionImportOperations,
                 userVars, currentUserData, issued, inputVars, mergeVars, ctlVars>>

(***************************************************************************)
(* The resolver.                                                           *)
(***************************************************************************)
RECURSIVE Flatten(_)
Flatten(seqs) == IF seqs = <<>> THEN <<>> ELSE seqs[1] \o Flatten(Tail(seqs))

\* the idMappings of all import definitions of a collection, in loop order
IdMappings(c) == Flatten([d \in 1..Len(c.importDefs) |-> c.importDefs[d].idMappings])

\* idMapping.fieldToSet || other
FieldToSet(idMapping, other) ==
  IF idMapping.fieldToSet # "" THEN idMapping.fieldToSet ELSE other

\* lines 357-366
usersCollectionPrimaryKeyFields ==
  UNION {{Collections[c].importDefs[d].primaryKeyField :
            d \in 1..Len(Collections[c].importDefs)} :
         c \in {x \in 1..Len(Collections) :
                  getCollectionKey(Collections[x].name)
                    = getCollectionKey(usersCollectionName)}} \ {""}

\* lines 384-391 for one item and one idMapping: mergedUserMap is read with
\* the old id as its key
RewriteMerged(item, idMapping) ==
  LET oldId == Get(item.context, idMapping.sourceField)
  IN IF oldId.t = "str" /\ MapHas(mergedUserMap, oldId.v)
     THEN [item EXCEPT !.context =
             Put(@, FieldToSet(idMapping, idMapping.targetField),
                 Arr([j \in 1..Len(MapGet(mergedUserMap, oldId.v)) |->
                        Str(MapGet(mergedUserMap, oldId.v)[j])]))]
     ELSE item

AppliesToUsers(idMapping) ==
  /\ getCollectionKey(idMapping.targetCollection) = getCollectionKey(usersCollectionName)
  /\ idMapping.targetField \in usersCollectionPrimaryKeyFields

RECURSIVE RewriteAll(_, _)
RewriteAll(item, idMappings) ==
  IF idMappings = <<>> THEN item
  ELSE RewriteAll(IF AppliesToUsers(idMappings[1])
                  THEN RewriteMerged(item, idMappings[1]) ELSE item,
                  Tail(idMappings))

ConfiguredKeys == {getCollectionKey(Collections[c].name) : c \in 1..Len(Collections)}
ConfigOf(key) ==
  Collections[CHOOSE c \in 1..Len(Collections) : getCollectionKey(Collections[c].name) = key]

\* dealWithMergedUsers, lines 349-398
dealWithMergedUsers ==
  /\ pc = "merged"
  /\ importMap' =
       [key \in DOMAIN importMap |->
          IF key \in ConfiguredKeys
          THEN [data |-> [i \in 1..Len(Stage(key)) |->
                            RewriteAll(Stage(key)[i], IdMappings(ConfigOf(key)))]]
          ELSE importMap[key]]
  /\ pc' = "refs"
  /\ UNCHANGED <<ci, di, cursor, oldIdToNewIdPerCollectionMap, collectionImportOperations,
                 userVars, currentUserData, issued, inputVars, mergeVars, ctlVars>>

\* lines 437-445: the staged records of the target whose context[targetField]
\* reads like the value
FoundData(idMapping, valueToMatch) ==
  LET target == Stage(getCollectionKey(idMapping.targetCollection))
  IN SelectSeq([j \in 1..Len(target) |-> j],
               LAMBDA j : TStr(Get(target[j].context, idMapping.targetField))
                          = TStr(valueToMatch))

\* a plausible slip: the field is assigned without the check of lines
\* 447-459, so a lookup that finds nothing sets it to undefined
ResolveOneAssignsMiss(item, idMapping) ==
  LET targetCollectionKey == getCollectionKey(idMapping.targetCollection)
      fieldToSetKey == FieldToSet(idMapping, idMapping.sourceField)
      valueToMatch == Get(item.context, idMapping.sourceField)
      foundData == FoundData(idMapping, valueToMatch)
  IN IF ~Truthy(valueToMatch) \/ IsEmpty(valueToMatch) THEN item
     ELSE IF targetCollectionKey \notin DOMAIN importMap THEN item
     ELSE [item EXCEPT !.finalData =
             Put(@, fieldToSetKey,
                 IF foundData = <<>> THEN Undef
                 ELSE IF Get(item.finalData, fieldToSetKey).t = "arr"
                 THEN Arr([j \in 1..Len(foundData) |-> Ref(targetCollectionKey, foundData[j])])
                 ELSE Ref(targetCollectionKey, foundData[1]))]

\* lines 422-472 for one staged record and one idMapping
ResolveOne(item, idMapping) ==
  LET targetCollectionKey == getCollectionKey(idMapping.targetCollection)
      fieldToSetKey == FieldToSet(idMapping, idMapping.sourceField)
      valueToMatch == Get(item.context, idMapping.sourceField)
      foundData == FoundData(idMapping, valueToMatch)
  IN IF ~Truthy(valueToMatch) \/ IsEmpty(valueToMatch) THEN item
     ELSE IF targetCollectionKey \notin DOMAIN importMap THEN item
     ELSE IF foundData = <<>> THEN item
     ELSE [item EXCEPT !.finalData =
             Put(@, fieldToSetKey,
                 IF Get(item.finalData, fieldToSetKey).t = "arr"
                 THEN Arr([j \in 1..Len(foundData) |-> Ref(targetCollectionKey, foundData[j])])
                 ELSE Ref(targetCollectionKey, foundData[1]))]

RECURSIVE ResolveAll(_, _)
ResolveAll(item, idMappings) ==
  IF idMappings = <<>> THEN item
  ELSE ResolveAll(ResolveOne(item, idMappings[1]), Tail(idMappings))

\* line 438 reads data.context of every record of the target stage: a stage
\* whose records have no context makes it throw
ResolveThrows ==
  \E key \in DOMAIN importMap \cap ConfiguredKeys :
    \E i \in 1..Len(Stage(key)) :
      \E m \in 1..Len(IdMappings(ConfigOf(key))) :
        LET idMapping == IdMappings(ConfigOf(key))[m]
            valueToMatch == Get(Stage(key)[i].context, idMapping.sourceField)
            targetKey == getCollectionKey(idMapping.targetCollection)
        IN /\ Truthy(valueToMatch) /\ ~IsEmpty(valueToMatch)
           /\ targetKey \in DOMAIN importMap
           /\ \E j \in 1..Len(Stage(targetKey)) : "context" \notin DOMAIN Stage(targetKey)[j]

\* updateOldReferencesForNew, lines 400-483
updateOldReferencesForNew ==
  /\ pc = "refs"
  /\ IF ResolveThrows
     THEN pc' = "crashed" /\ importMap' = importMap
     ELSE /\ pc' = "done"
          /\ importMap' =
               [key \in DOMAIN importMap |->
                  IF key \in ConfiguredKeys
                  THEN [data |-> [i \in 1..Len(Stage(key)) |->
                                    ResolveAll(Stage(key)[i], IdMappings(ConfigOf(key)))]]
                  ELSE importMap[key]]
  /\ UNCHANGED <<ci, di, cursor, oldIdToNewIdPerCollectionMap, collectionImportOperations,
                 userVars, currentUserData, issued, inputVars, mergeVars, ctlVars>>

NextLoader ==
  \/ setupMaps
  \/ getAllUsers
  \/ beginCreateData
  \/ beginUserCollectionCreateData
  \/ prepareCreateData
  \/ prepareUserCollectionCreateData
  \/ endCreateData
  \/ beginUpdateData
  \/ prepareUpdateData
  \/ endUpdateData
  \/ dealWithMergedUsers
  \/ updateOldReferencesForNew

(***************************************************************************)
(* ImportController (src/migrations/importController.ts) on the collection *)
(* Posts: processImportDefinitions, processBatch and the record handlers,  *)
(* then the drains of the after-import queue.  The records of a batch run  *)
(* concurrently; each action below is one of them between two awaits.      *)
(***************************************************************************)
batchLimit == 25

ctlCollection == Collections[2]
ctlCreateDef == createDefs(ctlCollection)[1]
ctlUpdateDef == updateDefs(ctlCollection)[1]
ctlFile(pass) == IF pass = "create" THEN files[ctlCreateDef.file] ELSE files[ctlUpdateDef.file]
ctlDef(pass) == IF pass = "create" THEN ctlCreateDef ELSE ctlUpdateDef

loaderVars == <<pc, ci, di, cursor, importMap, oldIdToNewIdPerCollectionMap,
                collectionImportOperations, userVars, currentUserData, issued>>

Settled(rec) == rec.pos \in {"fulfilled", "rejected"}
\* a plausible slip: Promise.race in the place of Promise.allSettled
FirstSettled == ctl.flight = <<>> \/ \E i \in 1..Len(ctl.flight) : Settled(ctl.flight[i])
\* a plausible slip: Promise.all in the place of Promise.allSettled, which
\* never gets past a batch with a rejected record
AllFulfilledOnly == \A i \in 1..Len(ctl.flight) : ctl.flight[i].pos = "fulfilled"
AllSettled == \A i \in 1..Len(ctl.flight) : Settled(ctl.flight[i])

\* the constructor, lines 56-71, and a store without documents or operations
ControllerIdle ==
  /\ ctl = [pc |-> "idle", flight |-> <<>>, rest |-> <<>>,
            documentCache |-> <<>>, documents |-> <<>>, peer |-> "waiting"]
  /\ queue = [status |-> "none", batches |-> <<>>, docs |-> <<>>, made |-> 0]
  /\ drain = [pc |-> "idle", todo |-> <<>>, runs |-> 0, outcome |-> <<>>]
  /\ run = [pc |-> "idle", dbs |-> 0, cols |-> 0, db |-> 0, next |-> 0,
            active |-> <<>>, winner |-> 0, state |-> <<>>]

\* processImportDefinitions, lines 163-191: the cache is cleared and the
\* create definition's data is loaded
processImportDefinitions ==
  /\ ctl.pc = "idle"
  /\ ctlCollection.name \in dbCollections
  /\ ctl' = [ctl EXCEPT !.pc = "create", !.documentCache = <<>>,
                        !.rest = ctlFile("create"), !.flight = <<>>]
  /\ UNCHANGED <<queue, drain, loaderVars, inputVars, mergeVars, run>>

Min(a, b) == IF a < b THEN a ELSE b

\* processBatch, lines 259-262: the next batchLimit records start together,
\* once every record of the batch before has settled
processBatch ==
  /\ ctl.pc \in {"create", "update"}
  /\ AllSettled
  /\ ctl.rest # <<>>
  /\ LET n == Min(batchLimit, Len(ctl.rest))
     IN ctl' = [ctl EXCEPT
                  !.flight = [i \in 1..n |->
                                [raw |-> ctl.rest[i].raw, ok |-> ctl.rest[i].ok,
                                 pos |-> "new", docId |-> ""]],
                  !.rest = SubSeq(ctl.rest, n + 1, Len(ctl.rest))]
  /\ UNCHANGED <<queue, drain, loaderVars, inputVars, mergeVars, run>>

\* lines 194-209: after the last batch of the create definition the update
\* definition's data is loaded; after the last batch of that, the collection
\* is done
endProcessBatch ==
  /\ ctl.pc \in {"create", "update"}
  /\ AllSettled
  /\ ctl.rest = <<>>
  /\ ctl' = IF ctl.pc = "create"
            THEN [ctl EXCEPT !.pc = "update", !.rest = ctlFile("update"), !.flight = <<>>]
            ELSE [ctl EXCEPT !.pc = "imported", !.flight = <<>>]
  /\ UNCHANGED <<queue, drain, loaderVars, inputVars, mergeVars, run>>

\* the payload of a record in flight
finalItemOf(rec) == transformData(rec.raw, ctlDef(ctl.pc).attributeMappings)

\* the records of the batch that are past validateItem.  transformData and
\* validateItem call no store: their awaits resume in the order the records
\* were started, before the answer of any call to the store arrives
Validated(n) == \A j \in 1..n : ctl.flight[j].pos # "new"

\* lines 263-333 for a record of a collection that is not the identity
\* collection: context, transform, validateItem; an invalid record returns
validateItem(i) ==
  /\ ctl.pc \in {"create", "update"}
  /\ ctl.flight[i].pos = "new"
  /\ Validated(i - 1)
  /\ ctl' = [ctl EXCEPT !.flight[i].pos = IF ctl.flight[i].ok THEN "valid" ELSE "fulfilled"]
  /\ UNCHANGED <<queue, drain, loaderVars, inputVars, mergeVars, run>>

\* documentExists(db, collection, payload): a document of that payload, or
\* none ("")
documentExists(documents, finalItem) ==
  IF \E id \in DOMAIN documents : documents[id] = finalItem
  THEN CHOOSE id \in DOMAIN documents : documents[id] = finalItem
  ELSE ""

\* handleCreate, lines 407-412 and 441-444: the answer of documentExists,
\* unless the call is rejected; a document that exists is returned as it is
handleCreateExists(i) ==
  /\ ctl.pc = "create"
  /\ ctl.flight[i].pos = "valid"
  /\ Validated(Len(ctl.flight))
  /\ \E answered \in BOOLEAN :
       ctl' = [ctl EXCEPT !.flight[i].pos =
                 IF ~answered THEN "rejected"
                 ELSE IF documentExists(ctl.documents, finalItemOf(ctl.flight[i])) = ""
                      THEN "absent" ELSE "handled"]
  /\ UNCHANGED <<queue, drain, loaderVars, inputVars, mergeVars, run>>

\* handleCreate, lines 413-440: createDocument, which the store may reject,
\* then the cache entry for the update definition's mapping
handleCreate(i) ==
  /\ ctl.pc = "create"
  /\ ctl.flight[i].pos = "absent"
  /\ \E stored \in BOOLEAN :
       LET finalItem == finalItemOf(ctl.flight[i])
           id == "d" \o ToString(Cardinality(DOMAIN ctl.documents) + 1)
       IN ctl' = IF ~stored THEN [ctl EXCEPT !.flight[i].pos = "rejected"]
                 ELSE [ctl EXCEPT
                         !.flight[i].pos = "handled",
                         !.flight[i].docId = id,
                         !.documents = Put(@, id, finalItem),
                         !.documentCache =
                           MapSet(@, TStr(Get(finalItem, ctlUpdateDef.updateMapping.targetField)),
                                  id)]
  /\ UNCHANGED <<queue, drain, loaderVars, inputVars, mergeVars, run>>

\* handleUpdate, lines 447-473: a record whose original id is not in the
\* cache returns without a call to the store
handleUpdate(i) ==
  /\ ctl.pc = "update"
  /\ ctl.flight[i].pos = "valid"
  /\ Validated(Len(ctl.flight))
  /\ \E stored \in BOOLEAN :
       LET finalItem == finalItemOf(ctl.flight[i])
           origId == Get(ctl.flight[i].raw, ctlUpdateDef.updateMapping.originalIdField)
           cached == MapHas(ctl.documentCache, TStr(origId))
           docId == MapGet(ctl.documentCache, TStr(origId))
       IN ctl' = IF ~cached THEN [ctl EXCEPT !.flight[i].pos = "handled"]
                 ELSE IF ~stored THEN [ctl EXCEPT !.flight[i].pos = "rejected"]
                 ELSE [ctl EXCEPT
                         !.flight[i].pos = "handled",
                         !.flight[i].docId = docId,
                         !.documents = Put(@, docId, Spread2(ctl.documents[docId], finalItem))]
  /\ UNCHANGED <<queue, drain, loaderVars, inputVars, mergeVars, run>>

\* getAttributeMappingsWithActions(...).some((m) => m.postImportActions),
\* lines 363-369 and 480-515: a mapping with fileData gets an action
hasPostImportActions(importDef) ==
  \E m \in 1..Len(importDef.attributeMappings) : importDef.attributeMappings[m].fileData

\* createOrFindAfterImportOperation: the operation of the collection is
\* found or created and a batch holding the context is added to it
createOrFindAfterImportOperation(q, docId) ==
  LET batchId == "b" \o ToString(q.made + 1)
  IN [status |-> IF q.status = "none" THEN "pending" ELSE q.status,
      batches |-> Append(q.batches, batchId),
      docs |-> Put(q.docs, batchId, [docId |-> docId, processed |-> FALSE]),
      made |-> q.made + 1]

\* lines 359-390: whatever the handler returned, the record goes on; when its
\* mappings carry an action, the context is queued, unless the call is
\* rejected; then the record is done
queueAfterImportActions(i) ==
  /\ ctl.pc \in {"create", "update"}
  /\ ctl.flight[i].pos = "handled"
  /\ \E queued \in BOOLEAN :
       IF ~hasPostImportActions(ctlDef(ctl.pc))
       THEN ctl' = [ctl EXCEPT !.flight[i].pos = "fulfilled"] /\ queue' = queue
       ELSE IF queued
            THEN /\ ctl' = [ctl EXCEPT !.flight[i].pos = "fulfilled"]
                 /\ queue' = createOrFindAfterImportOperation(queue, ctl.flight[i].docId)
            ELSE ctl' = [ctl EXCEPT !.flight[i].pos = "rejected"] /\ queue' = queue
  /\ UNCHANGED <<drain, loaderVars, inputVars, mergeVars, run>>

MaxDrains == 2   \* calls of executePostImportActions after one import

\* getAfterImportOperations: the operation of the collection, whatever its
\* status, if there is one
getAfterImportOperations(q) == IF q.status = "none" THEN <<>> ELSE <<q>>

\* lines 548-569: the batches of the operation that can still be read and
\* are not processed
resultsData(operation) ==
  SelectSeq(operation.batches,
            LAMBDA b : b \in DOMAIN operation.docs /\ ~operation.docs[b].processed)

\* executePostImportActions and executeActionsInParallel up to the loop over
\* the batches, lines 518-569
executePostImportActions ==
  /\ ctl.pc = "imported"
  /\ drain.pc = "idle"
  /\ drain.runs < MaxDrains
  /\ LET operations == getAfterImportOperations(queue)
     IN drain' = [drain EXCEPT
                    !.pc = IF operations = <<>> THEN "idle" ELSE "running",
                    !.todo = IF operations = <<>> THEN <<>> ELSE resultsData(operations[1]),
                    !.runs = @ + 1]
  /\ UNCHANGED <<ctl, queue, loaderVars, inputVars, mergeVars, run>>

\* lines 570-592 for one batch.  The action runs to its end ("done"), fails
\* inside afterImportActions, where every action catches and logs its error
\* ("caught", afterImportActions.ts 201-203), or executeAfterImportActions
\* throws ("thrown").  Unless it throws, the batch is deleted and the
\* operation is updated to completed with no batches.
executeBatch ==
  /\ drain.pc = "running"
  /\ drain.todo # <<>>
  /\ \E outcome \in {"done", "caught", "thrown"} :
       LET batch == Head(drain.todo)
       IN /\ drain' = [drain EXCEPT !.todo = Tail(@), !.outcome = Put(@, batch, outcome)]
          /\ queue' = IF outcome = "thrown" THEN queue
                      ELSE [queue EXCEPT !.docs = Del(@, {batch}),
                                         !.status = "completed",
                                         !.batches = <<>>]
  /\ UNCHANGED <<ctl, loaderVars, inputVars, mergeVars, run>>

\* lines 594-597: after the last batch the operation is updated to completed
endExecuteActions ==
  /\ drain.pc = "running"
  /\ drain.todo = <<>>
  /\ drain' = [drain EXCEPT !.pc = "idle"]
  /\ queue' = [queue EXCEPT !.status = "completed"]
  /\ UNCHANGED <<ctl, loaderVars, inputVars, mergeVars, run>>

NextController ==
  \/ processImportDefinitions
  \/ processBatch
  \/ endProcessBatch
  \/ \E i \in 1..Len(ctl.flight) : validateItem(i)
  \/ \E i \in 1..Len(ctl.flight) : handleCreateExists(i)
  \/ \E i \in 1..Len(ctl.flight) : handleCreate(i)
  \/ \E i \in 1..Len(ctl.flight) : handleUpdate(i)
  \/ \E i \in 1..Len(ctl.flight) : queueAfterImportActions(i)
  \/ executePostImportActions
  \/ executeBatch
  \/ endExecuteActions

(***************************************************************************)
(* The deep merge on its own: every pair of objects within the bounds.     *)
(***************************************************************************)
MaxArr == 1     \* longest array of an input of mergeObjects

TopKeys == {"a", "b"}
SubKeys == {"n"}
Scalars == {Str("x"), Str("y")}

RECURSIVE SeqsUpTo(_, _)
SeqsUpTo(S, n) ==
  IF n = 0 THEN {<<>>}
  ELSE LET shorter == SeqsUpTo(S, n - 1)
       IN shorter \cup {Append(q, x) : q \in {r \in shorter : Len(r) = n - 1}, x \in S}

ObjsOver(keys, vals) == UNION {[d -> vals] : d \in SUBSET keys}

Leaves == {Null} \cup Scalars \cup {Arr(q) : q \in SeqsUpTo({"x", "y"}, MaxArr)}
Nested == {Obj(f) : f \in ObjsOver(SubKeys, Leaves)}
MergeInputs == {Obj(f) : f \in ObjsOver(TopKeys, Leaves \cup Nested)}

\* a DataLoader as its constructor leaves it (lines 54-84)
Constructed ==
  /\ importMap = <<>>
  /\ oldIdToNewIdPerCollectionMap = <<>>
  /\ collectionImportOperations = {}
  /\ mergedUserMap = <<>>
  /\ emailToUserIdMap = <<>>
  /\ phoneToUserIdMap = <<>>
  /\ currentUserData = [data |-> <<>>]
  /\ issued = {}
  /\ ci = 0 /\ di = 0 /\ cursor = 0

NoFiles == [f \in DefFiles |-> <<>>]

\* no migration is run
LoaderIdle ==
  /\ Constructed
  /\ pc = "idle"
  /\ files = NoFiles /\ storeUsers = <<>> /\ dbCollections = {}
  /\ previous = NoResult

MergeIdle ==
  mSource = NoResult /\ mUpdate = NoResult /\ mResult = NoResult /\ keyCall = NoResult

InitMerge ==
  /\ mSource \in MergeInputs
  /\ mUpdate \in MergeInputs
  /\ mResult = NoResult
  /\ keyCall = NoResult
  /\ LoaderIdle
  /\ ControllerIdle

\* one call mergeObjects(source, update)
CallMerge ==
  /\ mSource # NoResult
  /\ mResult = NoResult
  /\ mResult' = mergeObjects(mSource, mUpdate)
  /\ UNCHANGED <<mSource, mUpdate, keyCall, files, storeUsers, dbCollections, previous,
                 pc, ci, di, cursor,
                 importMap, oldIdToNewIdPerCollectionMap, collectionImportOperations,
                 mergedUserMap, emailToUserIdMap, phoneToUserIdMap, currentUserData, issued,
                 ctlVars>>

NextMerge == CallMerge

vars == <<mSource, mUpdate, mResult, keyCall, files, storeUsers, dbCollections, previous,
          pc, ci, di, cursor,
          importMap, oldIdToNewIdPerCollectionMap, collectionImportOperations,
          mergedUserMap, emailToUserIdMap, phoneToUserIdMap, currentUserData, issued,
          ctl, queue, drain, run>>

SpecMerge == InitMerge /\ [][NextMerge]_vars

\* C8: a field of A that is not null survives a merge with a B whose field
\* of that name is null or absent, at the top and inside nested objects
\* merged key by key; a key of A that B lacks keeps its value.
RECURSIVE NonDestructive(_, _, _)
NonDestructive(A, B, R) ==
  \A k \in DOMAIN A :
    /\ (k \notin DOMAIN B \/ (IsNullish(B[k]) /\ ~IsNullish(A[k]))) =>
         (k \in DOMAIN R /\ R[k] = A[k])
    /\ (k \in DOMAIN B /\ A[k].t = "obj" /\ B[k].t = "obj") =>
         (k \in DOMAIN R /\ R[k].t = "obj" /\ NonDestructive(A[k].o, B[k].o, R[k].o))

ThmC8_MergeNonDestructive ==
  mResult.t = "obj" => NonDestructive(mSource.o, mUpdate.o, mResult.o)

WitC8_NullOverValue ==
  /\ mResult.t = "obj"
  /\ \E k \in DOMAIN mSource.o \cap DOMAIN mUpdate.o :
       mSource.o[k] \in Scalars /\ mUpdate.o[k] = Null
  /\ \E k \in DOMAIN mSource.o \cap DOMAIN mUpdate.o :
       /\ mSource.o[k].t = "obj" /\ mUpdate.o[k].t = "obj"
       /\ \E n \in DOMAIN mSource.o[k].o :
            /\ mSource.o[k].o[n] \in Scalars
            /\ n \in DOMAIN mUpdate.o[k].o => mUpdate.o[k].o[n] = Null

(***************************************************************************)
(* Runs of DataLoader.start over data files within the bounds.             *)
(***************************************************************************)
MaxUsers == 2   \* records of the identity file in the runs of the merge engine
MaxRecs == 2    \* records of a data file in the runs of the whole loader

Entries(raws, oks) == {[raw |-> r, ok |-> o] : r \in raws, o \in oks}

MemberRaws(ids, emails, phones) ==
  {[id |-> i, email |-> Str(e), phone |-> Str(ph)] : i \in ids, e \in emails, ph \in phones}
PostRaws(ids, authors) == {[id |-> i, author |-> a] : i \in ids, a \in authors}
PostRawsWithWriter(ids, authors) ==
  {[id |-> i, author |-> a, writer |-> Arr(<<>>)] : i \in ids, a \in authors}
MemberUpdates(ids) == {[id |-> i, bio |-> Str("x")] : i \in ids}
PostUpdates(ids) == {[id |-> i, title |-> Str("x")] : i \in ids}

AllCollections == {Collections[c].name : c \in 1..Len(Collections)}

OneUser == <<[id |-> "e1", email |-> "b", phone |-> "q"]>>

Run(mc, mu, pcr, pu, users) ==
  /\ files \in [membersCreate : mc, membersUpdate : mu, postsCreate : pcr, postsUpdate : pu]
  /\ storeUsers \in users
  /\ previous = NoResult
  /\ dbCollections = AllCollections
  /\ pc = "setup"
  /\ Constructed
  /\ MergeIdle
  /\ ControllerIdle

\* the identity file alone, with every combination of two emails, two
\* phones and a repeated primary key
InitDedup ==
  Run(SeqsUpTo(Entries(MemberRaws({Str("1"), Str("2")}, {"", "a", "b"}, {"", "p", "q"}),
                       {TRUE}), MaxUsers),
      {<<>>}, {<<>>}, {<<>>}, {<<>>, OneUser})

NextDedup ==
  \/ setupMaps
  \/ getAllUsers
  \/ beginUserCollectionCreateData
  \/ prepareUserCollectionCreateData

SpecDedup == InitDedup /\ [][NextDedup]_vars

\* create passes with repeated and empty primary keys
InitCreate ==
  Run(SeqsUpTo(Entries(MemberRaws({Str("1"), Str("")}, {"a", "b"}, {""}), {TRUE}), MaxRecs),
      {<<>>},
      SeqsUpTo(Entries(PostRaws({Str("1"), Str("")}, {Str("1")}), BOOLEAN), MaxRecs),
      {<<>>}, {<<>>})

\* references from Posts to Members, by string and by number, into a field
\* that is still unset or holds an array
InitResolve ==
  Run(SeqsUpTo(Entries(MemberRaws({Str("1"), Str("2"), Num("1")}, {"a"}, {""}), {TRUE}),
               MaxRecs),
      {<<>>},
      SeqsUpTo(Entries(PostRaws({Str("1")}, {Str("1"), Str("2"), Num("1"), Str("3")})
                         \cup PostRawsWithWriter({Str("1")}, {Str("1")}),
                       {TRUE}), MaxRecs),
      {<<>>}, {<<>>})

\* update passes whose keys may have no created record
InitUpdate ==
  \/ Run({<<[raw |-> [id |-> Str("1"), email |-> Str("a"), phone |-> Str("")], ok |-> TRUE]>>},
         SeqsUpTo(Entries(MemberUpdates({Str("1"), Str("2")}), BOOLEAN), MaxRecs),
         {<<>>}, {<<>>}, {<<>>})
  \/ Run({<<>>}, {<<>>},
         SeqsUpTo(Entries(PostRaws({Str("1")}, {Str("1")}), {TRUE}), 1),
         SeqsUpTo(Entries(PostUpdates({Str("1"), Str("2"), Num("1")}), BOOLEAN), MaxRecs),
         {<<>>})

\* a database that lacks some of the configured collections
InitMissing ==
  /\ files = [membersCreate |-> <<[raw |-> [id |-> Str("1"), email |-> Str("a"),
                                           phone |-> Str("")], ok |-> TRUE]>>,
              membersUpdate |-> <<>>,
              postsCreate |-> <<[raw |-> [id |-> Str("1"), author |-> Str("1")], ok |-> TRUE]>>,
              postsUpdate |-> <<>>]
  /\ storeUsers = <<>>
  /\ previous = NoResult
  /\ dbCollections \in (SUBSET AllCollections) \ {AllCollections}
  /\ pc = "setup"
  /\ Constructed
  /\ MergeIdle
  /\ ControllerIdle

\* an update file of the identity collection after two identity records of
\* the email of a user of the store, the first of them keyed by that user's id
InitMergedUpdate ==
  Run({<<[raw |-> [id |-> Str("e1"), email |-> Str("b"), phone |-> Str("")], ok |-> TRUE],
         [raw |-> [id |-> Str("2"), email |-> Str("b"), phone |-> Str("")], ok |-> TRUE]>>},
      SeqsUpTo(Entries(MemberUpdates({Str("e1"), Str("2")}), BOOLEAN), MaxRecs),
      {<<>>}, {<<>>}, {OneUser})

\* data files with records that fail validation, of the identity collection
\* and of Posts
InitInvalid ==
  Run(SeqsUpTo(Entries(MemberRaws({Str("1"), Str("2")}, {"a"}, {""}), BOOLEAN), MaxRecs),
      {<<>>},
      SeqsUpTo(Entries(PostRaws({Str("1")}, {Str("1")}), BOOLEAN), 1),
      {<<>>}, {<<>>})

Init ==
  InitCreate \/ InitResolve \/ InitUpdate \/ InitMissing \/ InitMergedUpdate \/ InitInvalid

Next == NextLoader

Spec == Init /\ [][Next]_vars

\* a create file of one record more than a batch holds: two records the
\* store may reject, records that fail validateItem, and a last record
MoreThanABatch ==
  [n \in 1..(batchLimit + 1) |->
     IF n <= 2 THEN [raw |-> [id |-> Str("1"), author |-> IF n = 1 THEN Str("1") ELSE Str("2")],
                     ok |-> TRUE]
     ELSE IF n <= batchLimit THEN [raw |-> [id |-> Str("2"), author |-> Str("1")], ok |-> FALSE]
     ELSE [raw |-> [id |-> Str("2"), author |-> Str("2")], ok |-> TRUE]]

\* the controller over a create file and an update file of Posts, with keys
\* that have and keys that lack a created document
InitController ==
  /\ \/ files \in [membersCreate : {<<>>}, membersUpdate : {<<>>},
                   postsCreate : SeqsUpTo(Entries(PostRaws({Str("1"), Str("2")}, {Str("1")}),
                                                  {TRUE}), MaxRecs),
                   postsUpdate : SeqsUpTo(Entries(PostUpdates({Str("1"), Str("2")}), BOOLEAN),
                                          MaxRecs)]
     \/ files = [membersCreate |-> <<>>, membersUpdate |-> <<>>,
                 postsCreate |-> MoreThanABatch, postsUpdate |-> <<>>]
  /\ storeUsers = <<>>
  /\ previous = NoResult
  /\ dbCollections = AllCollections
  /\ pc = "idle"
  /\ Constructed
  /\ MergeIdle
  /\ ControllerIdle

SpecController == InitController /\ [][NextController]_vars

(***************************************************************************)
(* The create passes.                                                      *)
(***************************************************************************)

\* C1: for every collection key that has a table, no id getTrueUniqueId can
\* return for that key is a value of the table.
CexC1_UniqueTargetId ==
  \A key \in DOMAIN oldIdToNewIdPerCollectionMap :
    getTrueUniqueId(key) \cap MapValues(Table(key)) = {}

\* the create pass is about to read a record whose primary key is already a
\* key of the table of its collection
DuplicateNext ==
  /\ pc = "create"
  /\ cursor < Len(files[createDef.file])
  /\ MapHas(Table(colKey),
            TStr(Get(files[createDef.file][cursor + 1].raw, createDef.primaryKeyField)))

Bucket(i) == {mergedUserMap[i].v[j] : j \in 1..Len(mergedUserMap[i].v)}

\* C3: every source id is in at most one bucket of mergedUserMap.
CexC3_OneBucketPerSourceId ==
  \A i, j \in 1..Len(mergedUserMap) : i # j => Bucket(i) \cap Bucket(j) = {}

\* the identity records read so far
IdentityRecord(n) == files[createDef.file][n].raw
IdentityPass == pc = "create" /\ isUsersCollection(col)
IdentityPairs == {p \in (1..cursor) \X (1..cursor) : p[1] < p[2]}

\* two records of one non-empty email and two different phones
SameEmail(p) ==
  /\ IdentityRecord(p[1]).email = IdentityRecord(p[2]).email
  /\ IdentityRecord(p[1]).email.v # ""
  /\ IdentityRecord(p[1]).phone # IdentityRecord(p[2]).phone

\* the phone of record n was in the phone index when the record was read:
\* a store user or an earlier record has it
PhoneKnown(n) ==
  LET phone == IdentityRecord(n).phone.v
  IN /\ phone # ""
     /\ \/ \E u \in 1..Len(storeUsers) : storeUsers[u].phone = phone
        \/ \E k \in 1..(n - 1) : IdentityRecord(k).phone.v = phone

\* both records have the id of one bucket, and the bucket has both source ids
OneBucketOfBoth(p) ==
  \E b \in 1..Len(mergedUserMap) :
    /\ {TStr(IdentityRecord(p[1]).id), TStr(IdentityRecord(p[2]).id)} \subseteq Bucket(b)
    /\ Stage(UsersKey)[p[1]].finalData.userId = Str(mergedUserMap[b].k)
    /\ Stage(UsersKey)[p[2]].finalData.userId = Str(mergedUserMap[b].k)

\* C4, the case the code gets right: two identity records of one non-empty email and
\* different phones, neither phone in the phone index when its record is
\* read, get one id, and the bucket of that id has both source ids; when
\* they are the only records read, it is the only bucket.
ThmC4_SameEmailOneBucket ==
  IdentityPass =>
    \A p \in IdentityPairs :
      (SameEmail(p) /\ ~PhoneKnown(p[1]) /\ ~PhoneKnown(p[2])) =>
        /\ OneBucketOfBoth(p)
        /\ cursor = 2 => Len(mergedUserMap) = 1

WitC4_SameEmailMerged ==
  /\ IdentityPass
  /\ \E p \in IdentityPairs :
       /\ SameEmail(p) /\ ~PhoneKnown(p[1]) /\ ~PhoneKnown(p[2])
       /\ IdentityRecord(p[1]).id # IdentityRecord(p[2]).id
       /\ IdentityRecord(p[1]).phone.v # "" /\ IdentityRecord(p[2]).phone.v # ""
       /\ OneBucketOfBoth(p)

\* C4 (as stated): two identity records of one non-empty email and different
\* phones get one id, and mergedUserMap has one bucket, of both source ids.
CexC4_SameEmailOneBucket ==
  (IdentityPass /\ cursor = 2 /\ SameEmail(<<1, 2>>)) =>
    (OneBucketOfBoth(<<1, 2>>) /\ Len(mergedUserMap) = 1)

(***************************************************************************)
(* The resolver.                                                           *)
(***************************************************************************)
\* the canonical ids whose bucket holds the source id
CanonicalOf(sourceId) ==
  {mergedUserMap[i].k : i \in {x \in 1..Len(mergedUserMap) : sourceId \in Bucket(x)}}

\* the staged records, each with every reference mapping of its collection
StagedReferences ==
  UNION {{[key |-> key, i |-> i, idMapping |-> IdMappings(ConfigOf(key))[m]] :
            i \in 1..Len(Stage(key)), m \in 1..Len(IdMappings(ConfigOf(key)))} :
         key \in DOMAIN importMap \cap ConfiguredKeys}

Staged(r) == Stage(r.key)[r.i]
SourceValue(r) == Get(Staged(r).context, r.idMapping.sourceField)

\* C5: once dealWithMergedUsers has run, a record that refers to the identity
\* collection by a source id of some bucket carries the canonical id of that
\* bucket; and when the resolver is done, two records that refer to source
\* ids of one bucket hold the same target.
CexC5_MergedReferencesRewritten ==
  /\ pc \in {"refs", "done"} =>
       \A r \in StagedReferences :
         (AppliesToUsers(r.idMapping) /\ SourceValue(r).t \in {"str", "num"}) =>
           \A k \in CanonicalOf(TStr(SourceValue(r))) :
             \/ SourceValue(r) = Str(k)
             \/ Get(Staged(r).context,
                    FieldToSet(r.idMapping, r.idMapping.targetField)) = Str(k)
  /\ pc = "done" =>
       \A r1, r2 \in StagedReferences :
         (/\ AppliesToUsers(r1.idMapping) /\ r1.idMapping = r2.idMapping
          /\ SourceValue(r1).t = "str" /\ SourceValue(r2).t = "str"
          /\ CanonicalOf(SourceValue(r1).v) \cap CanonicalOf(SourceValue(r2).v) # {}) =>
           Get(Staged(r1).finalData, FieldToSet(r1.idMapping, r1.idMapping.sourceField))
             = Get(Staged(r2).finalData, FieldToSet(r2.idMapping, r2.idMapping.sourceField))

\* the records of the target stage whose context[targetField] reads like the
\* source value of the reference, as references to their final payloads
Matches(r) ==
  LET targetKey == getCollectionKey(r.idMapping.targetCollection)
      found == IF targetKey \in DOMAIN importMap
               THEN FoundData(r.idMapping, SourceValue(r)) ELSE <<>>
  IN [j \in 1..Len(found) |-> Ref(targetKey, found[j])]

\* the field the record had from its attribute mappings, before the resolver
MappedField(r, field) ==
  \E d \in 1..Len(ConfigOf(r.key).importDefs) :
    LET importDef == ConfigOf(r.key).importDefs[d]
    IN /\ importDef.file = Staged(r).importDef
       /\ field \in DOMAIN transformData(Staged(r).rawData, importDef.attributeMappings)

\* C6: when the resolver is done, a record whose source value reads like the
\* context[targetField] of a staged target record, whatever the types, holds
\* the final payload of that record (or the array of them) at the mapped
\* field; with no such target record the resolver leaves the field absent.
CexC6_ReferencesResolved ==
  pc = "done" =>
    \A r \in StagedReferences :
      LET field == FieldToSet(r.idMapping, r.idMapping.sourceField)
          value == Get(Staged(r).finalData, field)
      IN /\ Matches(r) # <<>> => (value = Matches(r)[1] \/ value = Arr(Matches(r)))
         /\ (Matches(r) = <<>> /\ ~MappedField(r, field)) => field \notin DOMAIN Staged(r).finalData

\* C7: a field the resolver has set holds the array of all matches when the
\* schema of the collection declares the field an array, and the single
\* first match when it does not.
CexC7_ArrayWhenDeclared ==
  pc = "done" =>
    \A r \in StagedReferences :
      LET field == FieldToSet(r.idMapping, r.idMapping.sourceField)
          value == Get(Staged(r).finalData, field)
      IN (Matches(r) # <<>> /\ value \in {Matches(r)[1], Arr(Matches(r))}) =>
           IF field \in ConfigOf(r.key).arrayAttributes
           THEN value = Arr(Matches(r))
           ELSE value = Matches(r)[1]

(***************************************************************************)
(* The update pass and the drain of the after-import queue.                *)
(***************************************************************************)
\* the update pass of DataLoader is about to read a record whose primary key
\* no record of the collection's create file has
UncreatedNext ==
  /\ pc = "update"
  /\ cursor < Len(files[updateDef.file])
  /\ LET oldId == Get(files[updateDef.file][cursor + 1].raw, updateDef.primaryKeyField)
     IN \A d \in 1..Len(createDefs(col)) :
          \A k \in 1..Len(files[createDefs(col)[d].file]) :
            Get(files[createDefs(col)[d].file][k].raw, createDefs(col)[d].primaryKeyField)
              # oldId

\* C9, in DataLoader: prepareUpdateData skips such a record: the stages and
\* the tables stay as they are, nothing is thrown, and the pass goes on to
\* the next record.
LoaderSkipsUncreated ==
  [][UncreatedNext =>
       /\ importMap' = importMap
       /\ oldIdToNewIdPerCollectionMap' = oldIdToNewIdPerCollectionMap
       /\ mergedUserMap' = mergedUserMap
       /\ pc' = "update" /\ cursor' = cursor + 1]_vars

\* the controller has a record of the update pass in flight whose original
\* id no record of the create file has
Uncreated(i) ==
  /\ ctl.pc = "update"
  /\ ~Settled(ctl.flight[i])
  /\ \A k \in 1..Len(ctlFile("create")) :
       Get(ctlFile("create")[k].raw, ctlCreateDef.primaryKeyField)
         # Get(ctl.flight[i].raw, ctlUpdateDef.updateMapping.originalIdField)

\* a step of record i of the batch in flight
StepOf(i) == ctl'.pc = ctl.pc /\ Len(ctl'.flight) = Len(ctl.flight) /\ ctl'.flight[i] # ctl.flight[i]

\* C9, in handleUpdate alone: for such a record it calls nothing and throws
\* nothing.
HandleUpdateSkipsUncreated ==
  [][\A i \in 1..Len(ctl.flight) :
       (Uncreated(i) /\ ctl.flight[i].pos = "valid" /\ StepOf(i)) =>
         /\ ctl'.documents = ctl.documents /\ ctl'.documentCache = ctl.documentCache
         /\ queue' = queue
         /\ ctl'.flight[i].pos = "handled"]_vars

\* C9: an update record whose key has no create record is skipped: none of
\* the steps of its processing throws or changes the store (the documents
\* and the queued operations), and the other records of its batch are still
\* processed.
CexC9_UncreatedUpdateSkipped ==
  [][\A i \in 1..Len(ctl.flight) :
       (Uncreated(i) /\ StepOf(i)) =>
         /\ ctl'.documents = ctl.documents
         /\ queue' = queue
         /\ ctl'.flight[i].pos # "rejected"
         /\ \A j \in 1..Len(ctl.flight) : j # i => ctl'.flight[j] = ctl.flight[j]]_vars

\* C10: between two drains, every batch whose last execution failed still
\* has its document and is still listed by its operation, where the next
\* drain finds it.
CexC10_FailedBatchKept ==
  drain.pc = "idle" =>
    \A b \in DOMAIN drain.outcome :
      drain.outcome[b] \in {"caught", "thrown"} =>
        /\ b \in DOMAIN queue.docs
        /\ \E n \in 1..Len(queue.batches) : queue.batches[n] = b

(***************************************************************************)
(* The order of the passes.                                                *)
(***************************************************************************)
\* either program on its own: DataLoader.start over its data files, or the
\* controller over the files of Posts
InitPasses == Init \/ InitController
NextPasses == Next \/ (pc = "idle" /\ NextController)
SpecPasses == InitPasses /\ [][NextPasses]_vars

\* the loader or the controller is in the update pass of a collection
LoaderInUpdate(p) == p \in {"updateBegin", "update"}

\* a step of the loader into the update pass of a collection
LoaderCreateOver ==
  (LoaderInUpdate(pc') /\ ~LoaderInUpdate(pc)) =>
    /\ ci' = ci
    /\ di = Len(createDefs(col))
    /\ \/ pc = "create" /\ cursor = Len(files[createDef.file])
       \/ /\ pc = "createBegin" /\ isUsersCollection(col)
          /\ (UsersKey \notin DOMAIN importMap \/ colKey \notin DOMAIN importMap)

\* a step of the controller into the update pass
ControllerCreateOver ==
  (ctl'.pc = "update" /\ ctl.pc # "update") =>
    /\ ctl.pc = "create"
    /\ ctl.rest = <<>>
    /\ \A i \in 1..Len(ctl.flight) : ctl.flight[i].pos \in {"fulfilled", "rejected"}
    /\ ctl'.flight = <<>>

\* C11: the update pass of a collection begins only when its create pass is
\* over: in the loader the last create definition has read its whole file
\* (or has returned before its loop), in the controller the create file has
\* no record left to start and every record started has settled.
ThmC11_CreateBeforeUpdate == [][LoaderCreateOver /\ ControllerCreateOver]_vars

\* the controller is in the update pass after a create pass of two records;
\* the loader is in the update pass of a collection whose create file it read
WitC11_UpdateAfterCreate ==
  \/ /\ ctl.pc = "update"
     /\ Len(ctl.flight) > 0
     /\ Len(files[ctlCreateDef.file]) = 2
  \/ /\ pc = "update"
     /\ cursor > 0
     /\ Len(files[createDef.file]) = 2

(***************************************************************************)
(* ImportController.run: for each database importCollections, then the     *)
(* relationships, then the after-import actions.  A collection is a        *)
(* promise here: waiting, running, finished or failed.                     *)
(***************************************************************************)
maxParallel == 3
MaxCollections == 5   \* configured collections
MaxDatabases == 2     \* databases run() goes through

\* Promise.race(activePromises) is a new promise, none of the collections'
RacePromise == 0

Fulfilled(state, c) == state[c] = "finished"
Rejected(state, c) == state[c] = "failed"

\* Promise.race over promises of which some may have settled: the first
\* settled one in the order of the array, 0 while none has settled
RaceWinner(active, state) ==
  LET settled == {i \in 1..Len(active) : state[active[i]] \in {"finished", "failed"}}
  IN IF settled = {} THEN 0
     ELSE active[CHOOSE i \in settled : \A j \in settled : i <= j]

\* a plausible slip: the first promise decides, as with Promise.race
AnyFulfilled(active, state) ==
  active = <<>> \/ \E i \in 1..Len(active) : Fulfilled(state, active[i])

\* Promise.all(activePromises) fulfils
AllFulfilled(active, state) ==
  \A i \in 1..Len(active) : Fulfilled(state, active[i])

\* run, lines 86-104: the next database, or the end of run()
importCollections ==
  /\ run.pc = "start"
  /\ run' = IF run.db > run.dbs THEN [run EXCEPT !.pc = "done"]
            ELSE [run EXCEPT !.pc = "loop", !.next = 1, !.active = <<>>, !.winner = 0,
                             !.state = [c \in 1..run.cols |-> "waiting"]]
  /\ UNCHANGED <<ctl, queue, drain, loaderVars, inputVars, mergeVars>>

\* importCollections, lines 117-149: the next collection is started and its
\* promise is pushed; with maxParallel promises or more the loop waits
processCollection ==
  /\ run.pc = "loop"
  /\ run.next <= run.cols
  /\ LET active == Append(run.active, run.next)
         state == [run.state EXCEPT ![run.next] = "running"]
         waits == Len(active) >= maxParallel
     IN run' = [run EXCEPT !.active = active, !.state = state, !.next = @ + 1,
                           !.pc = IF waits THEN "race" ELSE "loop",
                           !.winner = IF waits THEN RaceWinner(active, state) ELSE 0]
  /\ UNCHANGED <<ctl, queue, drain, loaderVars, inputVars, mergeVars>>

\* lines 119-143: processCollection of collection c returns (the collection
\* is missing, or processImportDefinitions is through) or throws
endProcessCollection(c) ==
  /\ run.state[c] = "running"
  /\ \E outcome \in {"finished", "failed"} :
       run' = [run EXCEPT !.state[c] = outcome,
                          !.winner = IF run.pc = "race" /\ @ = 0 THEN c ELSE @]
  /\ UNCHANGED <<ctl, queue, drain, loaderVars, inputVars, mergeVars>>

\* lines 150-155: the race is decided; a rejection leaves importCollections,
\* else the promises that are not the promise of a new race are kept
promiseRace ==
  /\ run.pc = "race"
  /\ run.winner # 0
  /\ run' = IF Rejected(run.state, run.winner) THEN [run EXCEPT !.pc = "rejected"]
            ELSE [run EXCEPT !.pc = "loop", !.winner = 0,
                             !.active = SelectSeq(@, LAMBDA p : p # RacePromise)]
  /\ UNCHANGED <<ctl, queue, drain, loaderVars, inputVars, mergeVars>>

\* line 160: Promise.all(activePromises) after the loop
promiseAll ==
  /\ run.pc = "loop"
  /\ run.next > run.cols
  /\ \/ /\ \E i \in 1..Len(run.active) : Rejected(run.state, run.active[i])
        /\ run' = [run EXCEPT !.pc = "rejected"]
     \/ /\ AllFulfilled(run.active, run.state)
        /\ run' = [run EXCEPT !.pc = "resolve"]
  /\ UNCHANGED <<ctl, queue, drain, loaderVars, inputVars, mergeVars>>

\* run, line 105: resolveAndUpdateRelationships returns or throws
resolveAndUpdateRelationships ==
  /\ run.pc = "resolve"
  /\ \E returns \in BOOLEAN :
       run' = [run EXCEPT !.pc = IF returns THEN "drain" ELSE "rejected"]
  /\ UNCHANGED <<ctl, queue, drain, loaderVars, inputVars, mergeVars>>

\* run, lines 106-110: executePostImportActions, which settles every
\* collection's drain and never throws, then the next database
endDatabase ==
  /\ run.pc = "drain"
  /\ run' = [run EXCEPT !.pc = "start", !.db = @ + 1]
  /\ UNCHANGED <<ctl, queue, drain, loaderVars, inputVars, mergeVars>>

NextRun ==
  \/ importCollections
  \/ processCollection
  \/ \E c \in DOMAIN run.state : endProcessCollection(c)
  \/ promiseRace
  \/ promiseAll
  \/ resolveAndUpdateRelationships
  \/ endDatabase

\* run() over one or more databases and any number of collections
InitRun ==
  /\ LoaderIdle
  /\ MergeIdle
  /\ ctl = [pc |-> "idle", flight |-> <<>>, rest |-> <<>>,
            documentCache |-> <<>>, documents |-> <<>>, peer |-> "waiting"]
  /\ queue = [status |-> "none", batches |-> <<>>, docs |-> <<>>, made |-> 0]
  /\ drain = [pc |-> "idle", todo |-> <<>>, runs |-> 0, outcome |-> <<>>]
  /\ \E dbs \in 1..MaxDatabases, cols \in 0..MaxCollections :
       run = [pc |-> "start", dbs |-> dbs, cols |-> cols, db |-> 1, next |-> 0,
              active |-> <<>>, winner |-> 0, state |-> <<>>]

SpecRun == InitRun /\ [][NextRun]_vars

\* C14: the collections that are started and not finished are never more
\* than maxParallel.
CexC14_AtMostMaxParallel ==
  Cardinality({c \in DOMAIN run.state : run.state[c] = "running"}) <= maxParallel

(***************************************************************************)
(* The resolver and the drain come after the passes.                       *)
(***************************************************************************)
\* either DataLoader.start over its data files or ImportController.run
InitResolver == Init \/ InitRun
NextResolver == Next \/ NextRun
SpecResolver == InitResolver /\ [][NextResolver]_vars

\* start() is past the passes of every collection: the loop over the
\* collections is over, and every primary key of the create file of a
\* collection that is not the identity collection is in the collection's table
LoaderPassesOver ==
  /\ ci = Len(Collections) + 1
  /\ \A c \in 1..Len(Collections) :
       ~isUsersCollection(Collections[c]) =>
         \A d \in 1..Len(createDefs(Collections[c])) :
           LET def == createDefs(Collections[c])[d]
           IN \A n \in 1..Len(files[def.file]) :
                MapHas(Table(getCollectionKey(Collections[c].name)),
                       TStr(Get(files[def.file][n].raw, def.primaryKeyField)))

\* importCollections has started every configured collection and each has
\* finished
RunPassesOver ==
  /\ run.next = run.cols + 1
  /\ \A c \in 1..run.cols : run.state[c] = "finished"

\* C12: the resolver (dealWithMergedUsers, then updateOldReferencesForNew, in
\* the loader; resolveAndUpdateRelationships in the controller) runs only
\* when the create and update passes of every configured collection are over.
ThmC12_ResolverAfterPasses ==
  /\ pc \in {"merged", "refs"} => LoaderPassesOver
  /\ run.pc = "resolve" => RunPassesOver

\* the resolver of the loader is about to read the stages of two collections
\* that have records
WitC12_ResolverRuns ==
  /\ pc = "refs"
  /\ Len(files.postsCreate) = 2
  /\ Len(files.membersCreate) >= 1
  /\ Len(Stage(getCollectionKey(PostsName))) >= 1

\* a step of run() into the drain of a database's queue
DrainAfterResolver ==
  (run'.pc = "drain" /\ run.pc # "drain") =>
    /\ run.pc = "resolve"
    /\ run'.db = run.db
    /\ \A c \in 1..run.cols : run'.state[c] = "finished"

\* a step of run() into the resolution of a database's relationships
ResolverAfterImport ==
  (run'.pc = "resolve" /\ run.pc # "resolve") =>
    /\ run.pc = "loop"
    /\ run.next > run.cols
    /\ Len(run.active) = run.cols
    /\ \A c \in 1..run.cols : run.state[c] = "finished"

\* C13: for each database the queue is drained only when the resolution of
\* the relationships has returned, and that begins only when
\* importCollections has returned, every collection finished.
ThmC13_DrainAfterResolver == [][DrainAfterResolver /\ ResolverAfterImport]_vars

\* the queue of the second database is drained after five collections
WitC13_SecondDrain ==
  /\ run.pc = "drain"
  /\ run.db = 2
  /\ run.cols = 5

(***************************************************************************)
(* Failures inside a batch.                                                *)
(***************************************************************************)
\* the next step of record i of the batch in flight
BatchStep(i) ==
  \/ validateItem(i)
  \/ handleCreateExists(i)
  \/ handleCreate(i)
  \/ handleUpdate(i)
  \/ queueAfterImportActions(i)

SomeRejected == \E j \in 1..Len(ctl.flight) : ctl.flight[j].pos = "rejected"
Unsettled(i) == ctl.flight[i].pos \notin {"fulfilled", "rejected"}

\* with a rejected record in the batch, every record that has not settled can
\* take its next step (or a record before it is still to be validated and can
\* take its), and once all have settled processBatch goes on: to the next
\* batch if the file has more records, else it returns
FailureIsolated ==
  (ctl.pc \in {"create", "update"} /\ SomeRejected) =>
    /\ \A i \in 1..Len(ctl.flight) :
         Unsettled(i) =>
           \/ ENABLED BatchStep(i)
           \/ \E k \in 1..Len(ctl.flight) : ctl.flight[k].pos = "new" /\ ENABLED BatchStep(k)
    /\ (\A i \in 1..Len(ctl.flight) : ~Unsettled(i)) =>
         IF ctl.rest # <<>> THEN ENABLED processBatch ELSE ENABLED endProcessBatch

\* the step that rejects a record leaves the other records, the records still
\* to start and the pass as they are; the step after a batch with a rejected
\* record has settled starts the next batch or ends the pass
FailureStep ==
  /\ \A j \in 1..Len(ctl.flight) :
       (ctl.flight[j].pos # "rejected" /\ Len(ctl'.flight) = Len(ctl.flight)
          /\ ctl'.flight[j].pos = "rejected") =>
         /\ ctl'.pc = ctl.pc /\ ctl'.rest = ctl.rest
         /\ \A i \in 1..Len(ctl.flight) : i # j => ctl'.flight[i] = ctl.flight[i]
  /\ (ctl.pc \in {"create", "update"} /\ SomeRejected /\ ctl' # ctl
        /\ \A i \in 1..Len(ctl.flight) : ~Unsettled(i)) =>
       IF ctl.rest # <<>>
       THEN /\ ctl'.pc = ctl.pc
            /\ Len(ctl'.flight) = Min(batchLimit, Len(ctl.rest))
            /\ \A i \in 1..Len(ctl'.flight) : ctl'.flight[i].pos = "new"
       ELSE ctl'.pc = IF ctl.pc = "create" THEN "update" ELSE "imported"

\* C15: a record that fails stops no other record of its batch and does not
\* make processBatch reject: the next batch is started.
ThmC15_RecordFailureIsolated == []FailureIsolated /\ [][FailureStep]_vars

\* the second batch of a file is in flight although the store rejected both
\* valid records of the first
WitC15_NextBatchAfterFailure ==
  /\ ctl.pc = "create"
  /\ Len(files.postsCreate) = batchLimit + 1
  /\ ctl.rest = <<>>
  /\ Len(ctl.flight) = 1
  /\ ctl.flight[1].pos = "valid"
  /\ ctl.documents = <<>>

(***************************************************************************)
(* Fatal errors of a collection.                                           *)
(***************************************************************************)
\* every primary key of the create files of collection c is in its table
CreatePassDone(c) ==
  \A d \in 1..Len(createDefs(Collections[c])) :
    LET def == createDefs(Collections[c])[d]
    IN \A n \in 1..Len(files[def.file]) :
         MapHas(Table(getCollectionKey(Collections[c].name)),
                TStr(Get(files[def.file][n].raw, def.primaryKeyField)))

\* start() has ended on the error of a collection that has no import
\* operation (the collection is missing in the database)
FatalConfigurationError ==
  /\ pc = "crashed"
  /\ colKey \notin collectionImportOperations

\* C16: when start() meets a collection without import operation, the create
\* passes of the other collections, which have theirs, are still made.
CexC16_FatalErrorConfined ==
  FatalConfigurationError =>
    \A c \in 1..Len(Collections) :
      (c # ci /\ getCollectionKey(Collections[c].name) \in collectionImportOperations) =>
        CreatePassDone(c)

(***************************************************************************)
(* The identity merge over sequences of records.                           *)
(***************************************************************************)
\* two identity records with one non-empty email or one non-empty phone
SharesKey(p) ==
  \/ /\ IdentityRecord(p[1]).email = IdentityRecord(p[2]).email
     /\ IdentityRecord(p[1]).email.v # ""
  \/ /\ IdentityRecord(p[1]).phone = IdentityRecord(p[2]).phone
     /\ IdentityRecord(p[1]).phone.v # ""

\* the canonical id a record was given
CanonicalId(n) == Stage(UsersKey)[n].finalData.userId

\* C17: two identity records that share an email or a phone have one
\* canonical id, whatever was read before and between them.
CexC17_OneIdentityPerClass ==
  IdentityPass =>
    \A p \in IdentityPairs : SharesKey(p) => CanonicalId(p[1]) = CanonicalId(p[2])

(***************************************************************************)
(* The merge engine run twice over the same identity file                  *)
(***************************************************************************)
\* the buckets of mergedUserMap in the order they were opened, each with the
\* source ids pushed into it (lines 704-709)
BucketStructure == [i \in 1..Len(mergedUserMap) |-> mergedUserMap[i].v]

\* prepareUserCollectionCreateData has read the whole identity file
EngineDone == IdentityPass /\ cursor = Len(files[createDef.file])

\* a second DataLoader is constructed (lines 54-84) over the same files and
\* the same store, and started; ID.unique() keeps no memory of the first
newDataLoader ==
  /\ EngineDone
  /\ previous = NoResult
  /\ previous' = Arr(BucketStructure)
  /\ importMap' = <<>>
  /\ oldIdToNewIdPerCollectionMap' = <<>>
  /\ collectionImportOperations' = {}
  /\ mergedUserMap' = <<>>
  /\ emailToUserIdMap' = <<>>
  /\ phoneToUserIdMap' = <<>>
  /\ currentUserData' = [data |-> <<>>]
  /\ pc' = "setup" /\ ci' = 0 /\ di' = 0 /\ cursor' = 0
  /\ UNCHANGED <<issued, files, storeUsers, dbCollections, mergeVars, ctlVars>>

NextRerun == NextDedup \/ newDataLoader

SpecRerun == InitDedup /\ [][NextRerun]_vars

\* C18: the second run of the merge engine over the same ordered identity
\* file ends with the buckets of the first: the same source ids grouped
\* together, in the same order.
CexC18_SameMergeTable ==
  (EngineDone /\ previous # NoResult) => Arr(BucketStructure) = previous

(***************************************************************************)
(* getCollectionKey on its own, over pairs of collection names             *)
(***************************************************************************)
MaxName == 3   \* characters of a collection name
Names == SeqsUpTo({"A", "a", " "}, MaxName)

InitKey ==
  /\ keyCall \in {[names |-> <<a, b>>, keys |-> <<>>] : a \in Names, b \in Names}
  /\ mSource = NoResult /\ mUpdate = NoResult /\ mResult = NoResult
  /\ LoaderIdle
  /\ ControllerIdle

\* one call getCollectionKey(name), lines 87-89
callGetCollectionKey ==
  /\ keyCall # NoResult
  /\ Len(keyCall.keys) < Len(keyCall.names)
  /\ keyCall' = [keyCall EXCEPT
                   !.keys = Append(@, getCollectionKey(keyCall.names[Len(@) + 1]))]
  /\ UNCHANGED <<mSource, mUpdate, mResult, loaderVars, inputVars, ctlVars>>

NextKey == callGetCollectionKey

SpecKey == InitKey /\ [][NextKey]_vars

\* the letters of a name, its spaces left out
Letters(name) == SelectSeq(name, LAMBDA ch : ch # " ")

\* two names that differ only in case and in their spaces
SameName(a, b) == toLowerCase(Letters(a)) = toLowerCase(Letters(b))

\* C19: two collection names that differ only in letter case and in the
\* number and position of their spaces have the same key, and a key holds
\* no space.
CexC19_KeyInsensitive ==
  (keyCall # NoResult /\ Len(keyCall.keys) = 2) =>
    /\ SameName(keyCall.names[1], keyCall.names[2]) => keyCall.keys[1] = keyCall.keys[2]
    /\ \A i \in 1..Len(keyCall.keys[1]) : keyCall.keys[1][i] # " "

(***************************************************************************)
(* Update records of the identity collection keyed by merged source ids    *)
(***************************************************************************)
\* the source id is in a bucket of mergedUserMap
Folded(oldId) ==
  \E i \in 1..Len(mergedUserMap) :
    \E j \in 1..Len(mergedUserMap[i].v) : mergedUserMap[i].v[j] = TStr(oldId)

\* the staged records of the identity collection built for the identity `id`
\* (their context carries it as docId, lines 815 and 890)
StagedOf(id) ==
  {i \in 1..Len(Stage(colKey)) : Get(Stage(colKey)[i].context, "docId") = Str(id)}

\* the update record prepareUpdateData has just read
LastUpdate == files[updateDef.file][cursor]

\* C20: a valid update record of the identity collection whose key is a
\* source id folded into an identity is applied to a staged record of that
\* identity, whichever of the identity's source ids the key is.
CexC20_MergedIdUpdated ==
  (pc = "update" /\ isUsersCollection(col) /\ cursor >= 1) =>
    LET oldId == Get(LastUpdate.raw, updateDef.primaryKeyField)
    IN (LastUpdate.ok /\ Folded(oldId)) =>
         \E i \in StagedOf(NewIdOf(oldId)) :
           /\ Stage(colKey)[i].importDef = updateDef.file
           /\ Get(Stage(colKey)[i].finalData, "bio") = Get(LastUpdate.raw, "bio")

(***************************************************************************)
(* Records that fail schema validation                                     *)
(***************************************************************************)
\* the create pass stands before a record that validateItem, or
\* AuthUserCreateSchema for an identity record, rejects
BeforeInvalidRecord ==
  /\ pc = "create"
  /\ cursor < Len(files[createDef.file])
  /\ ~files[createDef.file][cursor + 1].ok

\* the record is passed over: nothing is staged and the loop is at the next
SkippedRecord ==
  /\ pc' = "create" /\ ci' = ci /\ di' = di /\ cursor' = cursor + 1
  /\ importMap'[colKey] = importMap[colKey]

InvalidRecordSkipped == BeforeInvalidRecord => SkippedRecord

\* C21: a create-pass record whose payload fails validation is skipped and
\* the pass goes on with the next record, for ordinary records and for
\* identity records alike; no exception leaves the run.
CexC21_InvalidRecordSkipped == [][InvalidRecordSkipped]_vars

(***************************************************************************)
(* Create or skip-if-exists                                                *)
(***************************************************************************)
\* C22: the store holds at most one document per distinct payload: no two
\* documents created by handleCreate have the same payload, also when the
\* records of one batch have identical payloads.
CexC22_OneDocumentPerPayload ==
  \A a \in DOMAIN ctl.documents : \A b \in DOMAIN ctl.documents :
    ctl.documents[a] = ctl.documents[b] => a = b

(***************************************************************************)
(* The staged records the resolver finds                                   *)
(***************************************************************************)
\* the record has a context whose docId is a non-empty id
HasDocId(rec) == "context" \in DOMAIN rec /\ Truthy(Get(rec.context, "docId"))

\* start() has reached the resolver (lines 333-335)
ResolverPass == pc \in {"merged", "refs"}

\* C23: when the resolver runs, every staged record of every stage of the
\* import map, the "users" stage included, has a context whose docId is a
\* non-empty target id.
CexC23_DocIdBeforeResolver ==
  ResolverPass =>
    \A key \in DOMAIN importMap : \A i \in 1..Len(Stage(key)) : HasDocId(Stage(key)[i])

(***************************************************************************)
(* The context of a staged record                                          *)
(***************************************************************************)
\* the keys of the context of record i of a stage, none when it has no context
ContextKeys(stage, i) ==
  IF "context" \in DOMAIN stage[i] THEN DOMAIN stage[i].context ELSE {}

\* every staged record keeps the keys its context had
ContextGrows ==
  \A key \in DOMAIN importMap \cap DOMAIN importMap' :
    \A i \in 1..Len(importMap[key].data) :
      /\ i <= Len(importMap'[key].data)
      /\ ContextKeys(importMap[key].data, i) \subseteq ContextKeys(importMap'[key].data, i)

\* C24: through the create pass, the update pass and the resolver pass, no
\* key of the context of a staged record is removed: after every step the
\* context has every key it had before.
CexC24_ContextGrows == [][ContextGrows]_vars

(***************************************************************************)
(* The entries of the id tables                                            *)
(***************************************************************************)
\* every entry of every table is an entry of the table after the step
TableEntriesKept ==
  \A key \in DOMAIN oldIdToNewIdPerCollectionMap :
    /\ key \in DOMAIN oldIdToNewIdPerCollectionMap'
    /\ \A e \in 1..Len(oldIdToNewIdPerCollectionMap[key]) :
         LET entry == oldIdToNewIdPerCollectionMap[key][e]
         IN /\ MapHas(oldIdToNewIdPerCollectionMap'[key], entry.k)
            /\ MapGet(oldIdToNewIdPerCollectionMap'[key], entry.k) = entry.v

\* C25: once a source id is a key of the id table of a collection, the
\* target id it is mapped to never changes, whatever create, update or
\* resolver step follows.
ThmC25_TableEntryWrittenOnce == [][TableEntriesKept]_vars

\* the run is over, and a collection whose create file has the same primary
\* key twice has that key in its table
WitC25_SecondRecordOfKey ==
  /\ pc = "done"
  /\ \E c \in 1..Len(Collections) :
       LET def == createDefs(Collections[c])[1]
           key == getCollectionKey(Collections[c].name)
       IN /\ Len(files[def.file]) >= 2
          /\ files[def.file][1].raw.id = files[def.file][2].raw.id
          /\ MapHas(Table(key), TStr(files[def.file][1].raw.id))

(***************************************************************************)
(* An identity record whose email and phone find different identities      *)
(***************************************************************************)
\* the identity record the engine reads next
NextIdentity == files[createDef.file][cursor + 1].raw

\* the engine stands before a record whose email is registered to one id and
\* whose phone is registered to another
EmailAndPhoneDiffer ==
  /\ IdentityPass
  /\ cursor < Len(files[createDef.file])
  /\ IsText(NextIdentity.email) /\ NextIdentity.email.v \in DOMAIN emailToUserIdMap
  /\ IsText(NextIdentity.phone) /\ NextIdentity.phone.v \in DOMAIN phoneToUserIdMap
  /\ emailToUserIdMap[NextIdentity.email.v] # phoneToUserIdMap[NextIdentity.phone.v]

\* the source id is pushed into the bucket of the phone's id, and every other
\* bucket stays as it is
PhoneWins ==
  LET winner == phoneToUserIdMap[NextIdentity.phone.v]
      before == IF MapHas(mergedUserMap, winner) THEN MapGet(mergedUserMap, winner) ELSE <<>>
  IN /\ MapHas(mergedUserMap', winner)
     /\ MapGet(mergedUserMap', winner) = Append(before, TStr(NextIdentity.id))
     /\ \A b \in 1..Len(mergedUserMap') :
          mergedUserMap'[b].k # winner =>
            /\ MapHas(mergedUserMap, mergedUserMap'[b].k)
            /\ MapGet(mergedUserMap, mergedUserMap'[b].k) = mergedUserMap'[b].v

PhoneWinsStep == EmailAndPhoneDiffer => PhoneWins

\* C26: an identity record whose email is registered to one identity and
\* whose phone is registered to another goes to the phone's identity: its
\* source id is appended to the bucket of that id and to no other bucket.
ThmC26_PhoneWins == [][PhoneWinsStep]_vars

\* the second record had the email of the first and the phone of a user of
\* the store, and is the last of the bucket of that user
WitC26_PhoneBucketGrew ==
  /\ IdentityPass /\ cursor = 2
  /\ storeUsers # <<>>
  /\ IdentityRecord(1).email = IdentityRecord(2).email
  /\ IdentityRecord(2).email.v # ""
  /\ IdentityRecord(1).phone.v # storeUsers[1].phone
  /\ IdentityRecord(2).phone.v = storeUsers[1].phone
  /\ emailToUserIdMap[IdentityRecord(2).email.v] # storeUsers[1].id
  /\ MapHas(mergedUserMap, storeUsers[1].id)
  /\ MapGet(mergedUserMap, storeUsers[1].id) = <<TStr(IdentityRecord(2).id)>>

(***************************************************************************)
(* The "users" stage after the merge                                       *)
(***************************************************************************)
\* C27: the "users" stage holds one staged record per canonical target id:
\* source records that are merged into one identity do not leave two
\* records of that identity in the stage.
CexC27_OneUserRecordPerIdentity ==
  IdentityPass =>
    \A i \in 1..Len(Stage(UsersKey)) : \A j \in 1..Len(Stage(UsersKey)) :
      CanonicalId(i) = CanonicalId(j) => i = j

(***************************************************************************)
(* The stages setupMaps leaves                                             *)
(***************************************************************************)
\* setupMaps has returned and nothing else has run
AfterSetupMaps == pc = "getAllUsers"

\* the keys of the configured collections checkForCollection finds
FoundKeys ==
  {getCollectionKey(Collections[c].name) :
     c \in {x \in 1..Len(Collections) : Collections[x].name \in dbCollections}}

AllStagesEmpty == \A key \in DOMAIN importMap : importMap[key].data = <<>>

\* C28 (as the code has it): after setupMaps the import map has one stage
\* per configured collection that the database has, and the stage "users",
\* which no configured collection needs to name; every stage is empty.
ThmC28_StagesAfterSetup ==
  AfterSetupMaps =>
    /\ DOMAIN importMap = FoundKeys \cup {UsersKey}
    /\ AllStagesEmpty

\* setupMaps has run on a database that lacks a configured collection, and
\* "users" is a stage though no configured collection has that key
WitC28_UsersStageWithoutCollection ==
  /\ AfterSetupMaps
  /\ dbCollections # AllCollections
  /\ UsersKey \in DOMAIN importMap
  /\ UsersKey \notin ConfiguredKeys

\* C28 (as stated): after setupMaps the import map has one stage per
\* configured collection and the stage "users"; every stage is empty.
CexC28_StagePerConfiguredCollection ==
  AfterSetupMaps =>
    /\ DOMAIN importMap = ConfiguredKeys \cup {UsersKey}
    /\ AllStagesEmpty

(***************************************************************************)
(* The groups of processBatch                                              *)
(***************************************************************************)
\* the records in flight are at most batchLimit
FlightBounded == Len(ctl.flight) <= batchLimit

\* processBatch takes records of the data file into flight
StartsGroup == ctl'.pc = ctl.pc /\ ctl'.rest # ctl.rest

\* a group starts only when every record of the group before has settled,
\* and it is made of the next records of the file, each taken once
GroupStep ==
  StartsGroup =>
    /\ \A i \in 1..Len(ctl.flight) : Settled(ctl.flight[i])
    /\ Len(ctl'.flight) + Len(ctl'.rest) = Len(ctl.rest)
    /\ \A i \in 1..Len(ctl'.flight) :
         /\ ctl'.flight[i].raw = ctl.rest[i].raw
         /\ ctl'.flight[i].pos = "new"
    /\ \A i \in 1..Len(ctl'.rest) : ctl'.rest[i] = ctl.rest[Len(ctl'.flight) + i]

\* C29: processBatch never has more than batchLimit records of an import
\* definition in flight, starts no record of a group before every record of
\* the group before has settled, and takes every record of the data file
\* into exactly one group.
ThmC29_BoundedGroups == []FlightBounded /\ [][GroupStep]_vars

\* the first batchLimit records of a file of batchLimit + 1 have just been
\* started; the last record waits
WitC29_FullGroupInFlight ==
  /\ ctl.pc = "create"
  /\ Len(files.postsCreate) = batchLimit + 1
  /\ Len(ctl.flight) = batchLimit
  /\ \A i \in 1..Len(ctl.flight) : ctl.flight[i].pos = "new"
  /\ Len(ctl.rest) = 1

(***************************************************************************)
(* The contexts of the queued after-import actions                         *)
(***************************************************************************)
\* C30: every context in the after-import queue carries the non-empty docId
\* of a document of the store: an action is queued only for a record whose
\* document was created or found.
CexC30_QueuedDocIdSet ==
  \A b \in DOMAIN queue.docs :
    /\ queue.docs[b].docId # ""
    /\ queue.docs[b].docId \in DOMAIN ctl.documents

(***************************************************************************)
(* Two collections in importCollections at once: Posts, as above, and a    *)
(* peer collection started by the same loop.  The controller has one       *)
(* documentCache for all of them (line 47).                                *)
(***************************************************************************)

\* importCollections, lines 119-143, for the peer: checkForCollection has
\* answered and processImportDefinitions is entered, which clears the
\* controller's documentCache (line 168)
peerProcessImportDefinitions ==
  /\ ctl.peer = "waiting"
  /\ ctl' = [ctl EXCEPT !.peer = "running", !.documentCache = <<>>]
  /\ UNCHANGED <<queue, drain, loaderVars, inputVars, mergeVars, run>>

\* lines 171-209 for the peer, whose definitions have no update mapping and
\* so leave the cache alone (lines 428-437): processImportDefinitions returns
peerImported ==
  /\ ctl.peer = "running"
  /\ ctl' = [ctl EXCEPT !.peer = "imported"]
  /\ UNCHANGED <<queue, drain, loaderVars, inputVars, mergeVars, run>>

NextShared == NextController \/ peerProcessImportDefinitions \/ peerImported

SpecShared == InitController /\ [][NextShared]_vars

\* the record in flight names, by its update mapping, a document created in
\* this run for the collection
CreatedEarlier(i) ==
  \E d \in DOMAIN ctl.documents :
    TStr(Get(ctl.documents[d], ctlUpdateDef.updateMapping.targetField))
      = TStr(Get(ctl.flight[i].raw, ctlUpdateDef.updateMapping.originalIdField))

\* C31: an update record whose key names a document created earlier in the
\* run has found it in the cache when handleUpdate returns, however the
\* processing of the other collections interleaves.
CexC31_CreatedDocumentFound ==
  ctl.pc = "update" =>
    \A i \in 1..Len(ctl.flight) :
      (ctl.flight[i].pos = "handled" /\ CreatedEarlier(i))
        => ctl.flight[i].docId # ""

(***************************************************************************)
(* The table of a collection against its stage.                            *)
(***************************************************************************)
PostsKey == getCollectionKey(PostsName)

\* a record of the stage of Posts was read with that primary key and holds
\* that new id
StagedUnder(oldId, newId) ==
  /\ PostsKey \in DOMAIN importMap
  /\ \E i \in 1..Len(Stage(PostsKey)) :
       /\ TStr(Get(Stage(PostsKey)[i].rawData, PostsCreate.primaryKeyField)) = oldId
       /\ Stage(PostsKey)[i].context.docId = Str(newId)

\* C32: every source id that is a key of the table of a collection belongs
\* to a record staged in the stage of that collection.
CexC32_TableKeysStaged ==
  \A e \in 1..Len(Table(PostsKey)) :
    StagedUnder(Table(PostsKey)[e].k, Table(PostsKey)[e].v)

(***************************************************************************)
(* The email index and the phone index against the identities.             *)
(***************************************************************************)

\* the ids of the identities getAllUsers loaded
LoadedIds == {storeUsers[i].id : i \in 1..Len(storeUsers)}

IsCanonical(id) == id \in LoadedIds \/ MapHas(mergedUserMap, id)

\* C33: every id held by the email index or the phone index is the id of an
\* identity getAllUsers loaded or a key of the merge table.
CexC33_IndexedIdsCanonical ==
  /\ \A email \in DOMAIN emailToUserIdMap : IsCanonical(emailToUserIdMap[email])
  /\ \A phone \in DOMAIN phoneToUserIdMap : IsCanonical(phoneToUserIdMap[phone])

(***************************************************************************)
(* The status of an operation against its batches.                         *)
(***************************************************************************)

\* the batches queued for the operation so far
BatchesMade == {"b" \o ToString(n) : n \in 1..queue.made}

\* executeAfterImportActions returned for the batch and its document is
\* deleted
ExecutedAndDeleted(b) ==
  /\ b \in DOMAIN drain.outcome
  /\ drain.outcome[b] # "thrown"
  /\ b \notin DOMAIN queue.docs

\* C34: an operation is in status completed only when every one of its
\* batches has been executed without an error and deleted.
CexC34_CompletedMeansAllDone ==
  queue.status = "completed" => \A b \in BatchesMade : ExecutedAndDeleted(b)

(***************************************************************************)
(* What the update pass leaves alone.                                      *)
(***************************************************************************)
UpdatePass == pc \in {"updateBegin", "update"}

\* the stage of key k has the records it had, each with its raw data; only
\* the stage of the collection being updated may differ in anything else
StageKept(k) ==
  /\ Len(importMap'[k].data) = Len(importMap[k].data)
  /\ \A i \in 1..Len(importMap[k].data) :
       /\ importMap'[k].data[i].rawData = importMap[k].data[i].rawData
       /\ k # colKey => importMap'[k].data[i] = importMap[k].data[i]

UpdateFrame ==
  UpdatePass =>
    /\ oldIdToNewIdPerCollectionMap' = oldIdToNewIdPerCollectionMap
    /\ mergedUserMap' = mergedUserMap
    /\ DOMAIN importMap' = DOMAIN importMap
    /\ \A k \in DOMAIN importMap : StageKept(k)

MaxDup == 2   \* longest array of an input of the double merge

TwiceLeaves == {Null, Str("x")} \cup {Arr(q) : q \in SeqsUpTo({Str("x")}, MaxDup)}
TwiceNested == {Obj(f) : f \in ObjsOver({"n", "length"}, {Null, Str("x")})}
TwiceInputs == {Obj(f) : f \in ObjsOver({"a"}, TwiceLeaves \cup TwiceNested)}

InitTwice ==
  /\ mSource \in TwiceInputs
  /\ mUpdate \in TwiceInputs
  /\ mResult = NoResult
  /\ keyCall = NoResult
  /\ LoaderIdle
  /\ ControllerIdle

SpecTwice == InitTwice /\ [][CallMerge]_vars

Returned == mResult # NoResult /\ mResult # Thrown

\* C36: merging the update into the result of the merge once more gives the
\* result again: mergeObjects(mergeObjects(A, B), B) = mergeObjects(A, B).
CexC36_MergeIdempotent ==
  Returned => mergeObjects(mResult, mUpdate) = mResult

(***************************************************************************)
(* The two payloads of an identity record.                                 *)
(***************************************************************************)
MembersKey == getCollectionKey(usersCollectionName)

IdentityOnly == {"email", "phone", "name", "labels", "prefs"}

\* the payloads staged for the identity collection have none of the fields
StrippedInCollection ==
  MembersKey \in DOMAIN importMap =>
    \A i \in 1..Len(Stage(MembersKey)) :
      DOMAIN Stage(MembersKey)[i].finalData \cap IdentityOnly = {}

\* the payloads of the "users" stage have every one of the fields their
\* record was read with
KeptInUsers ==
  UsersKey \in DOMAIN importMap =>
    \A i \in 1..Len(Stage(UsersKey)) :
      LET read == transformData(Stage(UsersKey)[i].rawData, MembersCreate.attributeMappings)
      IN \A k \in DOMAIN read \cap IdentityOnly :
           Get(Stage(UsersKey)[i].finalData, k) = read[k]

\* C37: email, phone, name, labels and prefs are absent from the payload
\* staged for an identity record in its own collection and present in the
\* payload staged for it in the "users" stage.
ThmC37_IdentityFieldsStripped == StrippedInCollection /\ KeptInUsers

\* a record read with an email and a phone is staged in both stages
WitC37_IdentityRecordStaged ==
  /\ MembersKey \in DOMAIN importMap
  /\ UsersKey \in DOMAIN importMap
  /\ \E i \in 1..Len(Stage(MembersKey)) :
       /\ IsText(Get(Stage(MembersKey)[i].rawData, "email"))
       /\ IsText(Get(Stage(MembersKey)[i].rawData, "phone"))
       /\ \E j \in 1..Len(Stage(UsersKey)) :
            /\ Stage(UsersKey)[j].rawData = Stage(MembersKey)[i].rawData
            /\ IsText(Get(Stage(UsersKey)[j].finalData, "email"))
            /\ IsText(Get(Stage(UsersKey)[j].finalData, "phone"))

(***************************************************************************)
(* A reference the general lookup cannot resolve.                          *)
(***************************************************************************)

\* the lookup of lines 437-445 is made for the record and the mapping
LooksUp(item, idMapping) ==
  LET valueToMatch == Get(item.context, idMapping.sourceField)
  IN /\ Truthy(valueToMatch) /\ ~IsEmpty(valueToMatch)
     /\ getCollectionKey(idMapping.targetCollection) \in DOMAIN importMap

Finds(item, idMapping) ==
  /\ LooksUp(item, idMapping)
  /\ FoundData(idMapping, Get(item.context, idMapping.sourceField)) # <<>>

\* a lookup of the record finds nothing, and none of its lookups finds
\* something
Unresolvable(key, i) ==
  LET idMappings == IdMappings(ConfigOf(key))
  IN /\ \E m \in 1..Len(idMappings) :
          LooksUp(Stage(key)[i], idMappings[m]) /\ ~Finds(Stage(key)[i], idMappings[m])
     /\ \A m \in 1..Len(idMappings) : ~Finds(Stage(key)[i], idMappings[m])

ResolverKeys == DOMAIN importMap \cap ConfiguredKeys

\* one member, of id 1, and posts of two ids whose authors are the member
\* or nobody; the update file of Posts names no post, so that every staged
\* post keeps the context of its create record
InitMiss ==
  Run({<<[raw |-> [id |-> Str("1"), email |-> Str("a"), phone |-> Str("")], ok |-> TRUE]>>},
      {<<[raw |-> [id |-> Str("1"), bio |-> Str("x")], ok |-> TRUE]>>},
      SeqsUpTo(Entries(PostRaws({Str("1"), Str("2")}, {Str("1"), Str("3")}), {TRUE}), MaxRecs),
      {<<[raw |-> [id |-> Str("3"), title |-> Str("x")], ok |-> TRUE]>>},
      {<<>>})

SpecMiss == InitMiss /\ [][NextLoader]_vars

SomeUnresolvable == \E key \in ResolverKeys : \E i \in 1..Len(Stage(key)) : Unresolvable(key, i)

\* the resolver ends, every record is still staged, the unresolvable ones
\* are as they were and the fields of the found references are set
MissIsNotFatal ==
  (pc = "refs" /\ SomeUnresolvable) =>
    /\ pc' = "done"
    /\ DOMAIN importMap' = DOMAIN importMap
    /\ \A key \in ResolverKeys :
         /\ Len(importMap'[key].data) = Len(Stage(key))
         /\ \A i \in 1..Len(Stage(key)) :
              /\ Unresolvable(key, i) => importMap'[key].data[i] = Stage(key)[i]
              /\ \A m \in 1..Len(IdMappings(ConfigOf(key))) :
                   LET idMapping == IdMappings(ConfigOf(key))[m]
                   IN Finds(Stage(key)[i], idMapping) =>
                        Get(importMap'[key].data[i].finalData,
                            FieldToSet(idMapping, idMapping.sourceField)).t \in {"ref", "arr"}

\* C38: a lookup that finds no target record is not fatal: the record stays
\* staged with its finalData and context as they were, and the resolver goes
\* on with the other mappings, records and collections.
ThmC38_MissIsNotFatal == [][MissIsNotFatal]_vars

\* the resolver is done; the first record of Posts kept its payload without
\* the reference, the second record, after it, has its reference
WitC38_ResolvedAfterMiss ==
  /\ pc = "done"
  /\ PostsKey \in DOMAIN importMap
  /\ Len(Stage(PostsKey)) = 2
  /\ Truthy(Get(Stage(PostsKey)[1].context, "author"))
  /\ "writer" \notin DOMAIN Stage(PostsKey)[1].finalData
  /\ Get(Stage(PostsKey)[2].finalData, "writer").t = "ref"

(***************************************************************************)
(* convertObjectByAttributeMappings on its own: every object over two keys *)
(* and every list of mappings within the bounds.  A target key may be a    *)
(* key of the object, and two mappings may share a target key.             *)
(***************************************************************************)
MaxMappings == 2   \* longest list of attribute mappings of a call

ConvertObjects == {Obj(f) : f \in ObjsOver({"a", "b"}, Scalars)}
ConvertMappings ==
  {[oldKey |-> o, targetKey |-> t, fileData |-> FALSE] : o \in {"a", "b", "c"}, t \in {"a", "t"}}

InitConvert ==
  /\ mSource \in ConvertObjects
  /\ mUpdate \in {[t |-> "mappings", m |-> q] : q \in SeqsUpTo(ConvertMappings, MaxMappings)}
  /\ mResult = NoResult
  /\ keyCall = NoResult
  /\ LoaderIdle
  /\ ControllerIdle

\* one call convertObjectByAttributeMappings(obj, attributeMappings)
callConvert ==
  /\ mSource # NoResult
  /\ mResult = NoResult
  /\ mResult' = Obj(convertObjectByAttributeMappings(mSource.o, mUpdate.m))
  /\ UNCHANGED <<mSource, mUpdate, keyCall, inputVars, loaderVars, ctlVars>>

SpecConvert == InitConvert /\ [][callConvert]_vars

\* the mappings whose old key the object has
Present(obj, mappings) == {i \in 1..Len(mappings) : mappings[i].oldKey \in DOMAIN obj}

\* the last of them that names the target key
LastFor(obj, mappings, key) ==
  CHOOSE i \in Present(obj, mappings) :
    /\ mappings[i].targetKey = key
    /\ \A j \in Present(obj, mappings) : mappings[j].targetKey = key => j <= i

\* C39: the record returned has exactly the target keys of the mappings
\* whose old key the object has, each with the object's value at the old key
\* of the last such mapping; the other keys of the object are dropped.
ThmC39_ConvertedKeys ==
  mResult # NoResult =>
    LET obj == mSource.o
        mappings == mUpdate.m
    IN /\ DOMAIN mResult.o = {mappings[i].targetKey : i \in Present(obj, mappings)}
       /\ \A key \in DOMAIN mResult.o :
            mResult.o[key] = obj[mappings[LastFor(obj, mappings, key)].oldKey]

\* two mappings with both old keys in the object share the target key, the
\* values differ, and the object has a key that is no target key
WitC39_LastMappingWins ==
  /\ mResult # NoResult
  /\ Len(mUpdate.m) = 2
  /\ mUpdate.m[1].targetKey = mUpdate.m[2].targetKey
  /\ {mUpdate.m[1].oldKey, mUpdate.m[2].oldKey} = DOMAIN mSource.o
  /\ mSource.o[mUpdate.m[1].oldKey] # mSource.o[mUpdate.m[2].oldKey]
  /\ DOMAIN mSource.o \ DOMAIN mResult.o # {}

====
